---------------------------- MODULE Spec2Model ----------------------------
(***************************************************************************)
(* A model of the LocatorInspector content script (src/content.js): the    *)
(* locator candidate generator, the scoring and ranking engine, the        *)
(* accessible-name and role resolver and the selector synthesizer, over a  *)
(* small document tree.                                                    *)
(*                                                                         *)
(* Strings of the program are sequences of one-character strings, so that  *)
(* lengths, regular expressions and selector syntax are computed on the    *)
(* characters themselves.  null is the sequence Null.                      *)
(***************************************************************************)
EXTENDS Integers, Sequences, FiniteSets, TLC

(***************************************************************************)
(* Characters and strings                                                  *)
(***************************************************************************)
Null == <<"null">>

Truthy(v) == v # Null /\ v # <<>>

Digits == {"0", "1", "2", "3", "4", "5", "6", "7", "8", "9"}

LowerLetters ==
    {"a", "b", "c", "d", "e", "f", "g", "h", "i", "j", "k", "l", "m",
     "n", "o", "p", "q", "r", "s", "t", "u", "v", "w", "x", "y", "z"}

UpperLetters ==
    {"A", "B", "C", "D", "E", "F", "G", "H", "I", "J", "K", "L", "M",
     "N", "O", "P", "Q", "R", "S", "T", "U", "V", "W", "X", "Y", "Z"}

Letters == LowerLetters \cup UpperLetters

HexDigits == Digits \cup {"a", "b", "c", "d", "e", "f", "A", "B", "C", "D", "E", "F"}

WhiteSpace == {" ", "\n", "\t"}

\* s[i..j] consists of characters of set cs (true of an empty range)
AllIn(s, i, j, cs) == \A k \in i..j : s[k] \in cs

\* the sequence t occurs in s at position i
OccursAt(s, i, t) ==
    /\ i >= 1
    /\ i + Len(t) - 1 <= Len(s)
    /\ \A k \in 1..Len(t) : s[i + k - 1] = t[k]

\* String.prototype.includes for a one-character needle
includes(s, c) == \E k \in 1..Len(s) : s[k] = c

RECURSIVE join(_, _)
\* Array.prototype.join
join(parts, sep) ==
    IF Len(parts) = 0 THEN <<>>
    ELSE IF Len(parts) = 1 THEN parts[1]
    ELSE parts[1] \o sep \o join(Tail(parts), sep)

\* String.prototype.trim
trim(s) ==
    LET keep == {k \in 1..Len(s) : s[k] \notin WhiteSpace}
    IN  IF keep = {} THEN <<>>
        ELSE SubSeq(s, CHOOSE a \in keep : \A b \in keep : a <= b,
                       CHOOSE a \in keep : \A b \in keep : a >= b)

\* position k closes a run of white space, or holds another character
endsRun(s, k) == s[k] \notin WhiteSpace \/ k = Len(s) \/ s[k + 1] \notin WhiteSpace

\* the characters kept by the replacement, each white-space run as one space
collapsedAt(s, kept) ==
    [i \in 1..Len(kept) |-> IF s[kept[i]] \in WhiteSpace THEN " " ELSE s[kept[i]]]

\* String.prototype.replace(/\s+/g, ' ')
collapseSpaces(s) ==
    collapsedAt(s, SelectSeq([k \in 1..Len(s) |-> k], LAMBDA k : endsRun(s, k)))

\* String.prototype.substring(0, n)
substring0(s, n) == IF Len(s) <= n THEN s ELSE SubSeq(s, 1, n)

\* the decimal digits of a natural number below 100 (template `${index + 1}`)
DigitChar(d) ==
    CASE d = 0 -> "0" [] d = 1 -> "1" [] d = 2 -> "2" [] d = 3 -> "3"
      [] d = 4 -> "4" [] d = 5 -> "5" [] d = 6 -> "6" [] d = 7 -> "7"
      [] d = 8 -> "8" [] d = 9 -> "9"

numberToString(n) ==
    IF n < 10 THEN <<DigitChar(n)>> ELSE <<DigitChar(n \div 10), DigitChar(n % 10)>>

(***************************************************************************)
(* hasDynamicParts: the seven regular expressions, each as "some position  *)
(* of the string starts a match"                                           *)
(***************************************************************************)
\* /\d{4,}/
matchLongNumber(s) == \E i \in 1..Len(s) : i + 3 <= Len(s) /\ AllIn(s, i, i + 3, Digits)

\* /[0-9a-f]{8}-[0-9a-f]{4}-[0-9a-f]{4}-[0-9a-f]{4}-[0-9a-f]{12}/i
matchUuid(s) ==
    \E i \in 1..Len(s) :
        /\ i + 35 <= Len(s)
        /\ AllIn(s, i, i + 7, HexDigits)
        /\ s[i + 8] = "-"
        /\ AllIn(s, i + 9, i + 12, HexDigits)
        /\ s[i + 13] = "-"
        /\ AllIn(s, i + 14, i + 17, HexDigits)
        /\ s[i + 18] = "-"
        /\ AllIn(s, i + 19, i + 22, HexDigits)
        /\ s[i + 23] = "-"
        /\ AllIn(s, i + 24, i + 35, HexDigits)

\* /#[0-9a-f]{6}/i
matchHexColor(s) ==
    \E i \in 1..Len(s) : s[i] = "#" /\ i + 6 <= Len(s) /\ AllIn(s, i + 1, i + 6, HexDigits)

\* /jss\d+/i
matchJss(s) ==
    \E i \in 1..Len(s) :
        /\ i + 3 <= Len(s)
        /\ s[i] \in {"j", "J"}
        /\ s[i + 1] \in {"s", "S"}
        /\ s[i + 2] \in {"s", "S"}
        /\ s[i + 3] \in Digits

\* /[a-z]+\d+[a-z]+\d+/i
matchMixedAlnum(s) ==
    \E b \in 2..Len(s) :
        /\ s[b - 1] \in Letters
        /\ s[b] \in Digits
        /\ \E c \in (b + 1)..Len(s) :
              /\ AllIn(s, b, c - 1, Digits)
              /\ s[c] \in Letters
              /\ \E d \in (c + 1)..Len(s) :
                    /\ AllIn(s, c, d - 1, Letters)
                    /\ s[d] \in Digits

\* /:\d+/
matchPort(s) == \E i \in 1..Len(s) : s[i] = ":" /\ i + 1 <= Len(s) /\ s[i + 1] \in Digits

\* /[0-9]{13,}/
matchTimestamp(s) == \E i \in 1..Len(s) : i + 12 <= Len(s) /\ AllIn(s, i, i + 12, Digits)

\* hasDynamicParts without the /jss\d+/i pattern
hasDynamicParts_noJss(str) ==
    /\ Truthy(str)
    /\ \/ matchLongNumber(str)
       \/ matchUuid(str)
       \/ matchHexColor(str)
       \/ matchMixedAlnum(str)
       \/ matchPort(str)
       \/ matchTimestamp(str)

\* hasDynamicParts without the /:\d+/ pattern
hasDynamicParts_noPort(str) ==
    /\ Truthy(str)
    /\ \/ matchLongNumber(str)
       \/ matchUuid(str)
       \/ matchHexColor(str)
       \/ matchJss(str)
       \/ matchMixedAlnum(str)
       \/ matchTimestamp(str)

hasDynamicParts(str) ==
    /\ Truthy(str)
    /\ \/ matchLongNumber(str)
       \/ matchUuid(str)
       \/ matchHexColor(str)
       \/ matchJss(str)
       \/ matchMixedAlnum(str)
       \/ matchPort(str)
       \/ matchTimestamp(str)

(***************************************************************************)
(* The document: a sequence of element nodes in document order.  Node 1 is *)
(* document.documentElement, node 2 is document.body.  A node is           *)
(*   [tagName, parent, attrs, text, width, height, display, visibility,    *)
(*    opacity]                                                             *)
(* with parent = 0 for the root, attrs a function from attribute names to  *)
(* values and text the node's own text (its text-node child).              *)
(***************************************************************************)
UpperAlphabet ==
    <<"A", "B", "C", "D", "E", "F", "G", "H", "I", "J", "K", "L", "M",
      "N", "O", "P", "Q", "R", "S", "T", "U", "V", "W", "X", "Y", "Z">>

LowerAlphabet ==
    <<"a", "b", "c", "d", "e", "f", "g", "h", "i", "j", "k", "l", "m",
      "n", "o", "p", "q", "r", "s", "t", "u", "v", "w", "x", "y", "z">>

toLowerChar(c) ==
    IF c \in UpperLetters
    THEN LowerAlphabet[CHOOSE i \in 1..26 : UpperAlphabet[i] = c]
    ELSE c

\* String.prototype.toLowerCase
toLowerCase(s) == [k \in 1..Len(s) |-> toLowerChar(s[k])]

\* the spelling of the attribute names the documents use
AttrChars ==
    ("id" :> <<"i", "d">>) @@
    ("class" :> <<"c", "l", "a", "s", "s">>) @@
    ("for" :> <<"f", "o", "r">>) @@
    ("role" :> <<"r", "o", "l", "e">>) @@
    ("aria-label" :> <<"a", "r", "i", "a", "-", "l", "a", "b", "e", "l">>) @@
    ("aria-labelledby" :> <<"a", "r", "i", "a", "-", "l", "a", "b", "e", "l", "l", "e", "d", "b", "y">>) @@
    ("placeholder" :> <<"p", "l", "a", "c", "e", "h", "o", "l", "d", "e", "r">>) @@
    ("alt" :> <<"a", "l", "t">>) @@
    ("title" :> <<"t", "i", "t", "l", "e">>) @@
    ("name" :> <<"n", "a", "m", "e">>) @@
    ("type" :> <<"t", "y", "p", "e">>) @@
    ("data-testid" :> <<"d", "a", "t", "a", "-", "t", "e", "s", "t", "i", "d">>) @@
    ("data-test-id" :> <<"d", "a", "t", "a", "-", "t", "e", "s", "t", "-", "i", "d">>) @@
    ("data-test" :> <<"d", "a", "t", "a", "-", "t", "e", "s", "t">>) @@
    ("data-qa" :> <<"d", "a", "t", "a", "-", "q", "a">>) @@
    ("data-cy" :> <<"d", "a", "t", "a", "-", "c", "y">>)

Nodes(doc) == 1..Len(doc)

documentElement == 1

body == 2

\* Element.getAttribute: null when the attribute is absent
getAttribute(doc, n, a) ==
    IF a \in DOMAIN doc[n].attrs THEN doc[n].attrs[a] ELSE Null

\* Element.id and Element.className reflect the attribute, "" when absent
elementId(doc, n) == IF "id" \in DOMAIN doc[n].attrs THEN doc[n].attrs["id"] ELSE <<>>

className(doc, n) == IF "class" \in DOMAIN doc[n].attrs THEN doc[n].attrs["class"] ELSE <<>>

parentElement(doc, n) == doc[n].parent

RECURSIVE ascending(_)
\* the members of a set of node numbers in document order
ascending(S) ==
    IF S = {} THEN <<>>
    ELSE LET m == CHOOSE a \in S : \A b \in S : a <= b
         IN  <<m>> \o ascending(S \ {m})

childElements(doc, n) == ascending({c \in Nodes(doc) : doc[c].parent = n})

RECURSIVE textContent(_, _)
RECURSIVE textOfAll(_, _)
\* Node.textContent: the text of the node and of its descendants, in document order
textContent(doc, n) == doc[n].text \o textOfAll(doc, childElements(doc, n))

textOfAll(doc, ns) ==
    IF ns = <<>> THEN <<>>
    ELSE textContent(doc, ns[1]) \o textOfAll(doc, Tail(ns))

\* document.getElementById: the first element in document order with that id
getElementById(doc, id) ==
    LET hits == {n \in Nodes(doc) : id # <<>> /\ elementId(doc, n) = id}
    IN  IF hits = {} THEN 0 ELSE CHOOSE a \in hits : \A b \in hits : a <= b

\* the number of preceding element siblings with the same tag name
precedingSameTag(doc, n) ==
    Cardinality({m \in Nodes(doc) :
        m < n /\ doc[m].parent = doc[n].parent /\ doc[m].tagName = doc[n].tagName})

\* isElementVisible (getBoundingClientRect and getComputedStyle of the node)
isElementVisible(doc, n) ==
    /\ doc[n].width # 0
    /\ doc[n].height # 0
    /\ doc[n].visibility # "hidden"
    /\ doc[n].display # "none"
    /\ doc[n].opacity # "0"

(***************************************************************************)
(* document.querySelectorAll: the selector grammar the generated           *)
(* expressions can spell -- compound selectors of a type or universal      *)
(* selector, .class, #id and [attr], [attr=ident], [attr="string"], joined *)
(* by the child (>) and descendant (white space) combinators.  Anything    *)
(* else (a pseudo-class, a stray character, an unterminated string, the    *)
(* empty selector) is a syntax error, which querySelectorAll throws.       *)
(***************************************************************************)
NameStartChars == Letters \cup {"_"}

NameChars == Letters \cup Digits \cup {"_", "-"}

\* an identifier starts at position i of s
identStartsAt(s, i) ==
    /\ i <= Len(s)
    /\ \/ s[i] \in NameStartChars
       \/ s[i] = "-" /\ i + 1 <= Len(s) /\ s[i + 1] \in NameStartChars \cup {"-"}

\* the last position of the run of name characters that starts at i
nameEnd(s, i) ==
    LET ends == {j \in i..Len(s) : AllIn(s, i, j, NameChars)}
    IN  CHOOSE a \in ends : \A b \in ends : a >= b

\* the first position from i on that holds no white space (Len(s) + 1 at the end)
skipSpace(s, i) ==
    LET stops == {k \in i..(Len(s) + 1) : k = Len(s) + 1 \/ s[k] \notin WhiteSpace}
    IN  CHOOSE a \in stops : \A b \in stops : a <= b

\* the position of the first double quote from i on (0 when there is none)
nextQuote(s, i) ==
    LET qs == {k \in i..Len(s) : s[k] = "\""}
    IN  IF qs = {} THEN 0 ELSE CHOOSE a \in qs : \A b \in qs : a <= b

EmptyCompound == [tag |-> <<>>, ids |-> <<>>, classes |-> <<>>, attrs |-> <<>>, n |-> 0]

SyntaxError == [ok |-> FALSE, pos |-> 0, comp |-> EmptyCompound]

RECURSIVE parseCompound(_, _, _)
\* one compound selector from position i on; acc holds what was read so far
parseCompound(s, i, acc) ==
    IF i > Len(s) \/ s[i] \in WhiteSpace \cup {">"}
    THEN [ok |-> acc.n > 0, pos |-> i, comp |-> acc]
    ELSE IF acc.n = 0 /\ s[i] = "*"
    THEN parseCompound(s, i + 1, [acc EXCEPT !.n = 1])
    ELSE IF acc.n = 0 /\ identStartsAt(s, i)
    THEN LET e == nameEnd(s, i)
         IN  parseCompound(s, e + 1, [acc EXCEPT !.tag = SubSeq(s, i, e), !.n = 1])
    ELSE IF s[i] = "." /\ identStartsAt(s, i + 1)
    THEN LET e == nameEnd(s, i + 1)
         IN  parseCompound(s, e + 1,
                 [acc EXCEPT !.classes = Append(@, SubSeq(s, i + 1, e)), !.n = @ + 1])
    ELSE IF s[i] = "#" /\ identStartsAt(s, i + 1)
    THEN LET e == nameEnd(s, i + 1)
         IN  parseCompound(s, e + 1,
                 [acc EXCEPT !.ids = Append(@, SubSeq(s, i + 1, e)), !.n = @ + 1])
    ELSE IF s[i] = "[" /\ identStartsAt(s, i + 1)
    THEN LET e == nameEnd(s, i + 1)
             an == SubSeq(s, i + 1, e)
         IN  IF e + 1 <= Len(s) /\ s[e + 1] = "]"
             THEN parseCompound(s, e + 2,
                     [acc EXCEPT !.attrs = Append(@, [name |-> an, any |-> TRUE, value |-> <<>>]),
                                 !.n = @ + 1])
             ELSE IF e + 2 <= Len(s) /\ s[e + 1] = "=" /\ s[e + 2] = "\""
             THEN LET q == nextQuote(s, e + 3)
                  IN  IF q # 0 /\ q + 1 <= Len(s) /\ s[q + 1] = "]"
                         /\ ~ \E k \in (e + 3)..(q - 1) : s[k] \in {"\n", "\\"}
                      THEN parseCompound(s, q + 2,
                              [acc EXCEPT !.attrs = Append(@, [name |-> an, any |-> FALSE,
                                                               value |-> SubSeq(s, e + 3, q - 1)]),
                                          !.n = @ + 1])
                      ELSE SyntaxError
             ELSE IF e + 2 <= Len(s) /\ s[e + 1] = "=" /\ identStartsAt(s, e + 2)
             THEN LET v == nameEnd(s, e + 2)
                  IN  IF v + 1 <= Len(s) /\ s[v + 1] = "]"
                      THEN parseCompound(s, v + 2,
                              [acc EXCEPT !.attrs = Append(@, [name |-> an, any |-> FALSE,
                                                               value |-> SubSeq(s, e + 2, v)]),
                                          !.n = @ + 1])
                      ELSE SyntaxError
             ELSE SyntaxError
    ELSE SyntaxError

NoSelector == [ok |-> FALSE, comps |-> <<>>, combs |-> <<>>]

RECURSIVE parseComplex(_, _, _)
RECURSIVE afterCompound(_, _, _)
RECURSIVE afterSpace(_, _, _, _)
\* the compound selectors and combinators from position i on
parseComplex(s, i, acc) == afterCompound(s, acc, parseCompound(s, i, EmptyCompound))

\* ... c is the compound just read
afterCompound(s, acc, c) ==
    IF ~c.ok THEN NoSelector
    ELSE afterSpace(s, Append(acc.comps, c.comp), acc.combs, skipSpace(s, c.pos))

\* ... j is the position after the compound and the white space behind it
afterSpace(s, comps, combs, j) ==
    IF j > Len(s) THEN [ok |-> TRUE, comps |-> comps, combs |-> combs]
    ELSE IF s[j] = ">"
    THEN parseComplex(s, skipSpace(s, j + 1),
            [comps |-> comps, combs |-> Append(combs, "child")])
    ELSE parseComplex(s, j, [comps |-> comps, combs |-> Append(combs, "descendant")])

\* the selector text parsed; ok = FALSE is the SyntaxError
parseSelector(s) == parseComplex(trim(s), 1, [comps |-> <<>>, combs |-> <<>>])

RECURSIVE splitOn(_, _)
\* the pieces of s between the characters of seps
splitOn(s, seps) ==
    LET sp == {k \in 1..Len(s) : s[k] \in seps}
    IN  IF sp = {} THEN <<s>>
        ELSE LET k == CHOOSE a \in sp : \A b \in sp : a <= b
             IN  <<SubSeq(s, 1, k - 1)>> \o splitOn(SubSeq(s, k + 1, Len(s)), seps)

\* the class tokens of an element (Element.classList)
classList(doc, n) ==
    LET tokens == splitOn(className(doc, n), WhiteSpace)
    IN  {t \in {tokens[k] : k \in 1..Len(tokens)} : t # <<>>}

\* element n satisfies the compound selector c
matchesCompound(doc, n, c) ==
    /\ c.tag = <<>> \/ toLowerCase(c.tag) = toLowerCase(doc[n].tagName)
    /\ \A k \in 1..Len(c.ids) : elementId(doc, n) = c.ids[k]
    /\ \A k \in 1..Len(c.classes) : c.classes[k] \in classList(doc, n)
    /\ \A k \in 1..Len(c.attrs) :
          \E a \in DOMAIN doc[n].attrs :
              /\ AttrChars[a] = toLowerCase(c.attrs[k].name)
              /\ c.attrs[k].any \/ doc[n].attrs[a] = c.attrs[k].value

RECURSIVE ancestors(_, _)
ancestors(doc, n) ==
    IF doc[n].parent = 0 THEN {} ELSE {doc[n].parent} \cup ancestors(doc, doc[n].parent)

RECURSIVE matchesComplex(_, _, _, _)
\* element n satisfies the first k compounds of the parsed selector p
matchesComplex(doc, n, p, k) ==
    /\ matchesCompound(doc, n, p.comps[k])
    /\ \/ k = 1
       \/ /\ p.combs[k - 1] = "child"
          /\ doc[n].parent # 0
          /\ matchesComplex(doc, doc[n].parent, p, k - 1)
       \/ /\ p.combs[k - 1] = "descendant"
          /\ \E a \in ancestors(doc, n) : matchesComplex(doc, a, p, k - 1)

\* the elements that satisfy the parsed selector p
selectParsed(doc, p) ==
    IF ~p.ok THEN [ok |-> FALSE, nodes |-> {}]
    ELSE [ok |-> TRUE,
          nodes |-> {n \in Nodes(doc) : matchesComplex(doc, n, p, Len(p.comps))}]

\* document.querySelectorAll: [ok, nodes]; ok = FALSE when it throws
querySelectorAll(doc, sel) == selectParsed(doc, parseSelector(sel))

\* the first node in document order (0 for none)
firstNode(nodes) == IF nodes = {} THEN 0 ELSE CHOOSE a \in nodes : \A b \in nodes : a <= b

firstOf(r) == [ok |-> r.ok, node |-> firstNode(r.nodes)]

\* document.querySelector: [ok, node]; node = 0 is null
querySelector(doc, sel) == firstOf(querySelectorAll(doc, sel))

(***************************************************************************)
(* document.evaluate: the two path-query shapes generateXPath spells,      *)
(* //*[@id="v"] and an absolute path of steps tag or tag[k].  Any other    *)
(* text is a syntax error, which document.evaluate throws.                 *)
(***************************************************************************)
\* the value of a run of decimal digits
RECURSIVE decimalValue(_)
decimalValue(ds) ==
    IF ds = <<>> THEN 0
    ELSE 10 * decimalValue(SubSeq(ds, 1, Len(ds) - 1))
         + (CHOOSE d \in 0..9 : DigitChar(d) = ds[Len(ds)])

NoSteps == [ok |-> FALSE, steps |-> <<>>]

\* the position of the first "]" from i on (0 when there is none)
nextBracket(x, i) ==
    LET closes == {k \in i..Len(x) : x[k] = "]"}
    IN  IF closes = {} THEN 0 ELSE CHOOSE a \in closes : \A b \in closes : a <= b

RECURSIVE parseSteps(_, _, _)
RECURSIVE stepNamed(_, _, _, _)
RECURSIVE stepIndexed(_, _, _, _, _)
RECURSIVE stepDone(_, _, _, _)
\* the steps of an absolute path from position i on (i is just after a "/")
parseSteps(x, i, acc) ==
    IF ~identStartsAt(x, i) THEN NoSteps ELSE stepNamed(x, i, nameEnd(x, i), acc)

\* ... the step's name is x[i..e]
stepNamed(x, i, e, acc) ==
    IF e + 1 <= Len(x) /\ x[e + 1] = "["
    THEN stepIndexed(x, i, e, nextBracket(x, e + 2), acc)
    ELSE stepDone(x, e, Append(acc, [name |-> SubSeq(x, i, e), index |-> 0]), acc)

\* ... and its [k] predicate closes at c
stepIndexed(x, i, e, c, acc) ==
    IF c > e + 2 /\ AllIn(x, e + 2, c - 1, Digits)
    THEN stepDone(x, c,
            Append(acc, [name |-> SubSeq(x, i, e),
                         index |-> decimalValue(SubSeq(x, e + 2, c - 1))]), acc)
    ELSE NoSteps

\* ... the step ends at position last
stepDone(x, last, steps, acc) ==
    IF last = Len(x) THEN [ok |-> TRUE, steps |-> steps]
    ELSE IF x[last + 1] = "/" THEN parseSteps(x, last + 2, steps)
    ELSE NoSteps

RECURSIVE selectSteps(_, _, _)
\* the nodes the steps select from the context nodes ctx (0 is the document)
selectSteps(doc, ctx, steps) ==
    IF steps = <<>> THEN ctx
    ELSE selectSteps(doc,
            {n \in Nodes(doc) :
                /\ doc[n].parent \in ctx
                /\ toLowerCase(doc[n].tagName) = toLowerCase(steps[1].name)
                /\ steps[1].index = 0 \/ precedingSameTag(doc, n) + 1 = steps[1].index},
            Tail(steps))

IdPredicateOpen == <<"/", "/", "*", "[", "@", "i", "d", "=", "\"">>

\* the nodes of //*[@id="..."] whose string literal closes at q
selectById(doc, x, q) ==
    IF q # 0 /\ q + 1 = Len(x) /\ x[q + 1] = "]"
    THEN [ok |-> TRUE,
          nodes |-> {n \in Nodes(doc) :
                        /\ "id" \in DOMAIN doc[n].attrs
                        /\ doc[n].attrs["id"] = SubSeq(x, Len(IdPredicateOpen) + 1, q - 1)}]
    ELSE [ok |-> FALSE, nodes |-> {}]

\* the nodes of the parsed absolute path p
selectPath(doc, p) ==
    IF p.ok THEN [ok |-> TRUE, nodes |-> selectSteps(doc, {0}, p.steps)]
    ELSE [ok |-> FALSE, nodes |-> {}]

\* document.evaluate(...): [ok, nodes]; ok = FALSE when it throws
evaluateXPath(doc, x) ==
    IF OccursAt(x, 1, IdPredicateOpen)
    THEN selectById(doc, x, nextQuote(x, Len(IdPredicateOpen) + 1))
    ELSE IF Len(x) >= 1 /\ x[1] = "/"
    THEN selectPath(doc, parseSteps(x, 2, <<>>))
    ELSE [ok |-> FALSE, nodes |-> {}]

(***************************************************************************)
(* getMatchCount                                                           *)
(***************************************************************************)
TextOperandOpen == <<"t", "e", "x", "t", "=", "\"">>

LabelHasTextOpen == <<"l", "a", "b", "e", "l", ":", "h", "a", "s", "-", "t", "e", "x", "t", "(", "\"">>

\* s without s[i..j] (s itself when i = 0), with t in its place
splice(s, i, j, t) ==
    IF i = 0 THEN s ELSE SubSeq(s, 1, i - 1) \o t \o SubSeq(s, j + 1, Len(s))

\* the smallest member of a set of positions (0 for the empty set)
firstPosition(ps) == IF ps = {} THEN 0 ELSE CHOOSE a \in ps : \A b \in ps : a <= b

\* where /text="[^"]*"/ first matches (0: nowhere)
textOperandStart(s) ==
    firstPosition({i \in 1..Len(s) :
        OccursAt(s, i, TextOperandOpen) /\ nextQuote(s, i + Len(TextOperandOpen)) # 0})

\* String.prototype.replace(/text="[^"]*"/, '')
replaceTextOperand(s) ==
    splice(s, textOperandStart(s),
           nextQuote(s, textOperandStart(s) + Len(TextOperandOpen)), <<>>)

\* where /label:has-text\("[^"]*"\)/ first matches (0: nowhere)
labelHasTextStart(s) ==
    firstPosition({i \in 1..Len(s) :
        /\ OccursAt(s, i, LabelHasTextOpen)
        /\ nextQuote(s, i + Len(LabelHasTextOpen)) # 0
        /\ nextQuote(s, i + Len(LabelHasTextOpen)) + 1 <= Len(s)
        /\ s[nextQuote(s, i + Len(LabelHasTextOpen)) + 1] = ")"})

\* String.prototype.replace(/label:has-text\("[^"]*"\)/, 'label')
replaceLabelHasText(s) ==
    splice(s, labelHasTextStart(s),
           nextQuote(s, labelHasTextStart(s) + Len(LabelHasTextOpen)) + 1, <<"l", "a", "b", "e", "l">>)

\* String.prototype.replace(/"/g, '')
stripQuotes(s) == SelectSeq(s, LAMBDA c : c # "\"")

\* the text-query expression reduced to its structural remainder
estimateSelector(value) == stripQuotes(replaceLabelHasText(replaceTextOperand(value)))

\* result.snapshotLength / querySelectorAll(...).length, 0 in the catch block
countOrZero(r) == IF r.ok THEN Cardinality(r.nodes) ELSE 0

\* the text-query count with the catch block of the other dialects
countOrOne_zeroInCatch(r) ==
    IF r.ok
    THEN IF Cardinality(r.nodes) # 0 THEN Cardinality(r.nodes) ELSE 1
    ELSE 0

\* querySelectorAll(est).length || 1, 1 in the catch block
countOrOne(r) ==
    IF r.ok
    THEN IF Cardinality(r.nodes) # 0 THEN Cardinality(r.nodes) ELSE 1
    ELSE 1

getMatchCount(doc, locator) ==
    IF locator.queryType = "xpath" THEN countOrZero(evaluateXPath(doc, locator.value))
    ELSE IF locator.queryType = "css" THEN countOrZero(querySelectorAll(doc, locator.value))
    ELSE IF locator.queryType = "playwright"
    THEN countOrOne(querySelectorAll(doc, estimateSelector(locator.value)))
    ELSE 0

(***************************************************************************)
(* Accessible name and role resolver                                       *)
(***************************************************************************)
T_BUTTON == <<"B", "U", "T", "T", "O", "N">>

T_A == <<"A">>

T_INPUT == <<"I", "N", "P", "U", "T">>

T_TEXTAREA == <<"T", "E", "X", "T", "A", "R", "E", "A">>

T_SELECT == <<"S", "E", "L", "E", "C", "T">>

T_NAV == <<"N", "A", "V">>

T_MAIN == <<"M", "A", "I", "N">>

T_FORM == <<"F", "O", "R", "M">>

T_IMG == <<"I", "M", "G">>

HeadingTags == {<<"H", "1">>, <<"H", "2">>, <<"H", "3">>, <<"H", "4">>, <<"H", "5">>, <<"H", "6">>}

\* roleMap[element.tagName] (undefined is Null)
roleMap(tagName) ==
    CASE tagName = T_BUTTON -> <<"b", "u", "t", "t", "o", "n">>
      [] tagName = T_A -> <<"l", "i", "n", "k">>
      [] tagName = T_INPUT -> <<"t", "e", "x", "t", "b", "o", "x">>
      [] tagName = T_TEXTAREA -> <<"t", "e", "x", "t", "b", "o", "x">>
      [] tagName = T_SELECT -> <<"c", "o", "m", "b", "o", "b", "o", "x">>
      [] tagName \in HeadingTags -> <<"h", "e", "a", "d", "i", "n", "g">>
      [] tagName = T_NAV -> <<"n", "a", "v", "i", "g", "a", "t", "i", "o", "n">>
      [] tagName = T_MAIN -> <<"m", "a", "i", "n">>
      [] tagName = T_FORM -> <<"f", "o", "r", "m">>
      [] OTHER -> Null

\* getImplicitRole without the INPUT entry of roleMap
getImplicitRole_noInput(doc, element) ==
    IF doc[element].tagName = T_INPUT THEN Null ELSE roleMap(doc[element].tagName)

getImplicitRole(doc, element) ==
    LET type == getAttribute(doc, element, "type")
    IN  IF doc[element].tagName = T_INPUT /\ type = <<"c", "h", "e", "c", "k", "b", "o", "x">> THEN <<"c", "h", "e", "c", "k", "b", "o", "x">>
        ELSE IF doc[element].tagName = T_INPUT /\ type = <<"r", "a", "d", "i", "o">> THEN <<"r", "a", "d", "i", "o">>
        ELSE IF doc[element].tagName = T_INPUT /\ type = <<"s", "u", "b", "m", "i", "t">> THEN <<"b", "u", "t", "t", "o", "n">>
        ELSE IF doc[element].tagName = T_INPUT /\ type = <<"b", "u", "t", "t", "o", "n">> THEN <<"b", "u", "t", "t", "o", "n">>
        ELSE roleMap(doc[element].tagName)

\* the selector text `label[for="${id}"]`
labelForSelector(id) == <<"l", "a", "b", "e", "l", "[", "f", "o", "r", "=", "\"">> \o id \o <<"\"", "]">>

Returned(v) == [threw |-> FALSE, name |-> v]

Thrown == [threw |-> TRUE, name |-> Null]

\* 4. Input - associated label or placeholder, label being the result of
\* document.querySelector(`label[for="${id}"]`)
inputNameWithLabel(doc, element, label) ==
    IF ~label.ok THEN Thrown
    ELSE IF label.node # 0 THEN Returned(trim(textContent(doc, label.node)))
    ELSE IF Truthy(getAttribute(doc, element, "placeholder"))
    THEN Returned(getAttribute(doc, element, "placeholder"))
    ELSE Returned(Null)

inputName(doc, element) ==
    IF Truthy(elementId(doc, element))
    THEN inputNameWithLabel(doc, element,
            querySelector(doc, labelForSelector(elementId(doc, element))))
    ELSE IF Truthy(getAttribute(doc, element, "placeholder"))
    THEN Returned(getAttribute(doc, element, "placeholder"))
    ELSE Returned(Null)

\* 2. aria-labelledby
labelledByElement(doc, element) ==
    IF Truthy(getAttribute(doc, element, "aria-labelledby"))
    THEN getElementById(doc, getAttribute(doc, element, "aria-labelledby"))
    ELSE 0

\* steps 3 to 6: by tag name
nameByTag(doc, element, text) ==
    IF doc[element].tagName = T_BUTTON /\ Truthy(text) THEN Returned(text)
    ELSE IF doc[element].tagName = T_INPUT THEN inputName(doc, element)
    ELSE IF doc[element].tagName = T_A /\ Truthy(text) THEN Returned(text)
    ELSE IF doc[element].tagName = T_IMG /\ Truthy(getAttribute(doc, element, "alt"))
    THEN Returned(getAttribute(doc, element, "alt"))
    ELSE Returned(Null)

\* [threw, name]: threw when document.querySelector raises a SyntaxError
getAccessibleName(doc, element) ==
    IF Truthy(getAttribute(doc, element, "aria-label"))
    THEN Returned(getAttribute(doc, element, "aria-label"))
    ELSE IF labelledByElement(doc, element) # 0
    THEN Returned(trim(textContent(doc, labelledByElement(doc, element))))
    ELSE nameByTag(doc, element, trim(textContent(doc, element)))

(***************************************************************************)
(* Selector synthesizer                                                    *)
(***************************************************************************)
\* String.prototype.split(' ')[0]
firstSplit(s) == splitOn(s, {" "})[1]

CssAttributes == <<"name", "placeholder", "title", "type">>

\* an attribute of CssAttributes that is set and not dynamic
usableAttribute(doc, current, k) ==
    /\ Truthy(getAttribute(doc, current, CssAttributes[k]))
    /\ ~hasDynamicParts(getAttribute(doc, current, CssAttributes[k]))

\* `[${attr}="${value}"]` for entry k of CssAttributes, nothing for k = 0
suffixFor(doc, current, k) ==
    IF k = 0 THEN <<>>
    ELSE <<"[">> \o AttrChars[CssAttributes[k]] \o <<"=", "\"">>
         \o getAttribute(doc, current, CssAttributes[k]) \o <<"\"", "]">>

\* the attribute suffix of one level: the first of name, placeholder, title,
\* type whose value is set and is not dynamic
attributeSuffix(doc, current) ==
    suffixFor(doc, current,
        firstPosition({k \in 1..Len(CssAttributes) : usableAttribute(doc, current, k)}))

\* the selector of one level of the ancestor walk
levelSelector(doc, current) ==
    LET firstClass == firstSplit(className(doc, current))
    IN  toLowerCase(doc[current].tagName)
        \o (IF Truthy(className(doc, current)) /\ Truthy(firstClass) /\ ~includes(firstClass, ":")
            THEN <<".">> \o firstClass ELSE <<>>)
        \o attributeSuffix(doc, current)

MaxCssDepth == 5

RECURSIVE cssParts_sixLevels(_, _, _)
\* the while loop of generateCssSelector with depth < 6
cssParts_sixLevels(doc, current, depth) ==
    IF current # 0 /\ current # body /\ depth < MaxCssDepth + 1
    THEN cssParts_sixLevels(doc, parentElement(doc, current), depth + 1)
         \o <<levelSelector(doc, current)>>
    ELSE <<>>

RECURSIVE cssParts(_, _, _)
\* the while loop of generateCssSelector: parts.unshift per level
cssParts(doc, current, depth) ==
    IF current # 0 /\ current # body /\ depth < MaxCssDepth
    THEN cssParts(doc, parentElement(doc, current), depth + 1)
         \o <<levelSelector(doc, current)>>
    ELSE <<>>

generateCssSelector(doc, element) ==
    IF Truthy(elementId(doc, element))
    THEN <<"#">> \o elementId(doc, element)
    ELSE join(cssParts(doc, element, 0), <<" ", ">", " ">>)

\* one level of generateXPath with tag[index] in place of tag[index + 1]
xpathPart_indexFromZero(doc, current) ==
    LET index == precedingSameTag(doc, current)
        tagName == toLowerCase(doc[current].tagName)
    IN  IF index # 0 THEN tagName \o <<"[">> \o numberToString(index) \o <<"]">>
        ELSE tagName

\* one level of generateXPath: tag or tag[index + 1]
xpathPart(doc, current) ==
    LET index == precedingSameTag(doc, current)
        tagName == toLowerCase(doc[current].tagName)
    IN  IF index # 0 THEN tagName \o <<"[">> \o numberToString(index + 1) \o <<"]">>
        ELSE tagName

RECURSIVE xpathParts(_, _)
\* the while loop of generateXPath: parts.unshift per level, up to the root element
xpathParts(doc, current) ==
    IF current = 0 THEN <<>>
    ELSE IF current = documentElement THEN <<xpathPart(doc, current)>>
    ELSE xpathParts(doc, parentElement(doc, current)) \o <<xpathPart(doc, current)>>

generateXPath(doc, element) ==
    IF Truthy(elementId(doc, element))
    THEN <<"/", "/", "*", "[", "@", "i", "d", "=", "\"">> \o elementId(doc, element) \o <<"\"", "]">>
    ELSE <<"/">> \o join(xpathParts(doc, element), <<"/">>)

MaxTextLength == 100

\* getStableText on the trimmed text content
stableTextOf(text) ==
    IF ~Truthy(text) THEN Null ELSE substring0(collapseSpaces(text), MaxTextLength)

\* getStableText: null, or the trimmed, white-space-collapsed text cut to 100
getStableText(doc, element) == stableTextOf(trim(textContent(doc, element)))

(***************************************************************************)
(* Candidate generator.  A locator is                                      *)
(*   [type, value, reason, queryType, accessibleName]                      *)
(* with accessibleName = Null where the code sets none.                    *)
(***************************************************************************)
Locator(type, value, reason, queryType, accessibleName) ==
    [type |-> type, value |-> value, reason |-> reason, queryType |-> queryType,
     accessibleName |-> accessibleName]

\* a || b of JavaScript
OrElse(a, b) == IF Truthy(a) THEN a ELSE b

\* 1. Test ID
testIdLocator(doc, element) ==
    LET testId == OrElse(getAttribute(doc, element, "data-testid"),
                  OrElse(getAttribute(doc, element, "data-test-id"),
                  OrElse(getAttribute(doc, element, "data-test"),
                  OrElse(getAttribute(doc, element, "data-qa"),
                         getAttribute(doc, element, "data-cy")))))
    IN  IF Truthy(testId)
        THEN <<Locator("test-id", <<"[", "d", "a", "t", "a", "-", "t", "e", "s", "t", "i", "d", "=", "\"">> \o testId \o <<"\"", "]">>,
                       "Explicit test identifier", "css", Null)>>
        ELSE <<>>

\* const role = element.getAttribute('role') || this.getImplicitRole(element)
elementRole(doc, element) ==
    OrElse(getAttribute(doc, element, "role"), getImplicitRole(doc, element))

\* 2. ARIA Role with accessible name
roleLocator(doc, element, accessibleName) ==
    LET role == elementRole(doc, element)
    IN  IF Truthy(role) /\ Truthy(accessibleName)
        THEN <<Locator("role", <<"r", "o", "l", "e", "=", "\"">> \o role \o <<"\"">>,
                       "ARIA role with accessible name", "css", accessibleName)>>
        ELSE <<>>

\* 3. ARIA Label
ariaLabelLocator(doc, element) ==
    LET ariaLabel == getAttribute(doc, element, "aria-label")
    IN  IF Truthy(ariaLabel)
        THEN <<Locator("aria-label", <<"[", "a", "r", "i", "a", "-", "l", "a", "b", "e", "l", "=", "\"">> \o ariaLabel \o <<"\"", "]">>,
                       "Accessibility label", "css", Null)>>
        ELSE <<>>

\* 4. without the test of the accessible name
roleAttrLocator_whateverName(doc, element, accessibleName) ==
    LET ariaRole == getAttribute(doc, element, "role")
    IN  IF Truthy(ariaRole)
        THEN <<Locator("role-attr", <<"[", "r", "o", "l", "e", "=", "\"">> \o ariaRole \o <<"\"", "]">>,
                       "ARIA role attribute", "css", Null)>>
        ELSE <<>>

\* 4. ARIA Role attribute only
roleAttrLocator(doc, element, accessibleName) ==
    LET ariaRole == getAttribute(doc, element, "role")
    IN  IF Truthy(ariaRole) /\ ~Truthy(accessibleName)
        THEN <<Locator("role-attr", <<"[", "r", "o", "l", "e", "=", "\"">> \o ariaRole \o <<"\"", "]">>,
                       "ARIA role attribute", "css", Null)>>
        ELSE <<>>

\* the label candidate, label being the result of document.querySelector
labelLocatorFor(doc, label) ==
    IF label.node # 0
    THEN <<Locator("label",
                   <<"l", "a", "b", "e", "l", ":", "h", "a", "s", "-", "t", "e", "x", "t", "(", "\"">> \o trim(textContent(doc, label.node)) \o <<"\"", ")">>,
                   "Form label association", "playwright", Null)>>
    ELSE <<>>

\* 5. Form label association
labelLocator(doc, element) ==
    IF Truthy(elementId(doc, element))
    THEN labelLocatorFor(doc, querySelector(doc, labelForSelector(elementId(doc, element))))
    ELSE <<>>

\* the text candidate, text being the result of getStableText
textLocatorFor(text) ==
    IF Truthy(text) /\ Len(text) < MaxTextLength
    THEN <<Locator("text", <<"t", "e", "x", "t", "=", "\"">> \o text \o <<"\"">>,
                   "Visible text content", "playwright", Null)>>
    ELSE <<>>

\* 6. Text content
textLocator(doc, element) == textLocatorFor(getStableText(doc, element))

\* 7. Placeholder
placeholderLocator(doc, element) ==
    LET placeholder == getAttribute(doc, element, "placeholder")
    IN  IF Truthy(placeholder)
        THEN <<Locator("placeholder", <<"[", "p", "l", "a", "c", "e", "h", "o", "l", "d", "e", "r", "=", "\"">> \o placeholder \o <<"\"", "]">>,
                       "Input placeholder", "css", Null)>>
        ELSE <<>>

\* 8. Alt text
altLocator(doc, element) ==
    LET alt == getAttribute(doc, element, "alt")
    IN  IF Truthy(alt)
        THEN <<Locator("alt", <<"i", "m", "g", "[", "a", "l", "t", "=", "\"">> \o alt \o <<"\"", "]">>, "Image alt text", "css", Null)>>
        ELSE <<>>

\* 9. Title attribute
titleLocator(doc, element) ==
    LET title == getAttribute(doc, element, "title")
    IN  IF Truthy(title)
        THEN <<Locator("title", <<"[", "t", "i", "t", "l", "e", "=", "\"">> \o title \o <<"\"", "]">>, "Title attribute", "css", Null)>>
        ELSE <<>>

\* 10. Name attribute
nameLocator(doc, element) ==
    LET name == getAttribute(doc, element, "name")
    IN  IF Truthy(name)
        THEN <<Locator("name", <<"[", "n", "a", "m", "e", "=", "\"">> \o name \o <<"\"", "]">>, "Form element name", "css", Null)>>
        ELSE <<>>

\* 11. ID attribute
idLocator(doc, element) ==
    IF Truthy(elementId(doc, element)) /\ ~includes(elementId(doc, element), ":")
    THEN <<Locator("id", <<"#">> \o elementId(doc, element), "Element ID", "css", Null)>>
    ELSE <<>>

\* the css candidate, cssSelector being the result of generateCssSelector
cssLocatorFor(cssSelector) ==
    IF Truthy(cssSelector)
    THEN <<Locator("css", cssSelector, "CSS selector", "css", Null)>>
    ELSE <<>>

\* 12. CSS Selector
cssLocator(doc, element) == cssLocatorFor(generateCssSelector(doc, element))

\* 13. XPath
xpathLocator(doc, element) ==
    <<Locator("xpath", generateXPath(doc, element), "XPath selector", "xpath", Null)>>

\* the steps of generateLocators after accessibleName is resolved (line 715)
locatorsWithName(doc, element, accessibleName) ==
    testIdLocator(doc, element)
    \o roleLocator(doc, element, accessibleName)
    \o ariaLabelLocator(doc, element)
    \o roleAttrLocator(doc, element, accessibleName)
    \o labelLocator(doc, element)
    \o textLocator(doc, element)
    \o placeholderLocator(doc, element)
    \o altLocator(doc, element)
    \o titleLocator(doc, element)
    \o nameLocator(doc, element)
    \o idLocator(doc, element)
    \o cssLocator(doc, element)
    \o xpathLocator(doc, element)

\* generateLocators once accessibleName (a [threw, name]) is resolved: it raises
\* when getAccessibleName raised (line 914) or when the document.querySelector
\* of the label step raises (line 750)
generateWithName(doc, element, accessibleName) ==
    IF accessibleName.threw
    THEN [threw |-> TRUE, name |-> accessibleName, locators |-> <<>>]
    ELSE IF /\ Truthy(elementId(doc, element))
            /\ ~querySelector(doc, labelForSelector(elementId(doc, element))).ok
    THEN [threw |-> TRUE, name |-> accessibleName, locators |-> <<>>]
    ELSE [threw |-> FALSE, name |-> accessibleName,
          locators |-> locatorsWithName(doc, element, accessibleName.name)]

\* [threw, name, locators]: the list the function returns, unless it raises;
\* name is its local accessibleName
generateLocators(doc, element) ==
    generateWithName(doc, element, getAccessibleName(doc, element))

(***************************************************************************)
(* Scoring and ranking engine                                              *)
(***************************************************************************)
BaseScore == 50

\* typeBonuses[locator.type] || 0
typeBonus_textOverCss(type) ==
    CASE type = "role" -> 90
      [] type = "test-id" -> 85
      [] type = "aria-label" -> 80
      [] type = "role-attr" -> 70
      [] type = "name" -> 60
      [] type = "id" -> 55
      [] type = "placeholder" -> 50
      [] type = "label" -> 45
      [] type = "alt" -> 40
      [] type = "title" -> 35
      [] type = "text" -> 15
      [] type = "css" -> 20
      [] type = "xpath" -> 10
      [] OTHER -> 0

typeBonus(type) ==
    CASE type = "role" -> 90
      [] type = "test-id" -> 85
      [] type = "aria-label" -> 80
      [] type = "role-attr" -> 70
      [] type = "name" -> 60
      [] type = "id" -> 55
      [] type = "placeholder" -> 50
      [] type = "label" -> 45
      [] type = "alt" -> 40
      [] type = "title" -> 35
      [] type = "text" -> 20
      [] type = "css" -> 15
      [] type = "xpath" -> 10
      [] OTHER -> 0

\* the uniqueness term with a penalty of 5 for every match, the first included
uniquenessTerm_perMatch(matchCount) ==
    IF matchCount = 1 THEN 10
    ELSE IF matchCount > 1 THEN 0 - matchCount * 5
    ELSE IF matchCount = 0 THEN 0 - 20
    ELSE 0

\* uniqueness penalty or bonus
uniquenessTerm(matchCount) ==
    IF matchCount = 1 THEN 10
    ELSE IF matchCount > 1 THEN 0 - (matchCount - 1) * 5
    ELSE IF matchCount = 0 THEN 0 - 20
    ELSE 0

\* bonus for short, clean selectors
lengthTerm(length) ==
    IF length < 30 THEN 5
    ELSE IF length > 150 THEN 0 - 10
    ELSE 0

\* the score before the final clamp
rawScore(type, matchCount, dynamic, visible, length) ==
    BaseScore
    + typeBonus(type)
    + uniquenessTerm(matchCount)
    - (IF dynamic THEN 30 ELSE 0)
    + (IF visible THEN 5 ELSE 0)
    + lengthTerm(length)

MathMax(a, b) == IF a >= b THEN a ELSE b

MathMin(a, b) == IF a <= b THEN a ELSE b

\* the clamp without Math.max(0, ...)
clampScore_noFloor(score) == MathMin(100, score)

\* Math.max(0, Math.min(100, score))
clampScore(score) == MathMax(0, MathMin(100, score))

\* calculateScore on the values it reads from the locator and the element
scoreOf(type, matchCount, dynamic, visible, length) ==
    clampScore(rawScore(type, matchCount, dynamic, visible, length))

calculateScore(doc, locator, element) ==
    scoreOf(locator.type, getMatchCount(doc, locator), hasDynamicParts(locator.value),
            isElementVisible(doc, element), Len(locator.value))

\* getStabilityLevel with > in place of >=
getStabilityLevel_strict(score) ==
    IF score > 80 THEN "Excellent"
    ELSE IF score > 60 THEN "Good"
    ELSE IF score > 40 THEN "Fair"
    ELSE "Poor"

getStabilityLevel(score) ==
    IF score >= 80 THEN "Excellent"
    ELSE IF score >= 60 THEN "Good"
    ELSE IF score >= 40 THEN "Fair"
    ELSE "Poor"

\* Math.round: the nearest integer, halves upwards (scores are whole numbers)
MathRound(score) == (2 * score + 1) \div 2

\* the object rankLocators maps a locator to
scored(locator, score) ==
    [type |-> locator.type, value |-> locator.value, reason |-> locator.reason,
     queryType |-> locator.queryType, accessibleName |-> locator.accessibleName,
     score |-> MathRound(score), stability |-> getStabilityLevel(score)]

\* x placed before the entries of the same score (an unstable sort)
insertByScore_beforeTies(sorted, x) ==
    LET ahead == Cardinality({k \in 1..Len(sorted) : sorted[k].score > x.score})
    IN  SubSeq(sorted, 1, ahead) \o <<x>> \o SubSeq(sorted, ahead + 1, Len(sorted))

\* x placed after every entry whose score is not lower (b.score - a.score <= 0)
insertByScore(sorted, x) ==
    LET ahead == Cardinality({k \in 1..Len(sorted) : sorted[k].score >= x.score})
    IN  SubSeq(sorted, 1, ahead) \o <<x>> \o SubSeq(sorted, ahead + 1, Len(sorted))

RECURSIVE sortByScore(_)
\* Array.prototype.sort((a, b) => b.score - a.score), a stable sort
sortByScore(items) ==
    IF items = <<>> THEN <<>>
    ELSE insertByScore(sortByScore(SubSeq(items, 1, Len(items) - 1)), items[Len(items)])

rankLocators(doc, locators, element) ==
    sortByScore([k \in 1..Len(locators) |->
                    scored(locators[k], calculateScore(doc, locators[k], element))])

\* buildLocatorInfo on the result g of its generateLocators call
reportOf(doc, element, g) ==
    IF g.threw
    THEN [element |-> element, name |-> g.name, threw |-> TRUE, generated |-> <<>>,
          locators |-> <<>>]
    ELSE [element |-> element, name |-> g.name, threw |-> FALSE, generated |-> g.locators,
          locators |-> rankLocators(doc, g.locators, element)]

\* buildLocatorInfo: [element, name, threw, generated, locators]; generated is
\* its local `locators`, name the accessible name generateLocators resolved
buildLocatorInfo(doc, element) == reportOf(doc, element, generateLocators(doc, element))

(***************************************************************************)
(* Framework converters.  A result is the case of the switch that was      *)
(* taken ("default" for the default branch) and the code it returned.      *)
(***************************************************************************)
\* where /<open>([^"]+)<close>/ first matches in value (0: nowhere); close
\* begins with the double quote that ends the group
captureStart(value, open, close) ==
    firstPosition({i \in 1..Len(value) :
        /\ OccursAt(value, i, open)
        /\ nextQuote(value, i + Len(open)) > i + Len(open)
        /\ OccursAt(value, nextQuote(value, i + Len(open)), close)})

\* the group of the match that starts at position start
groupAt(value, open, start) ==
    IF start = 0 THEN Null
    ELSE SubSeq(value, start + Len(open), nextQuote(value, start + Len(open)) - 1)

\* value.match(/<open>([^"]+)<close>/)?.[1]
capture(value, open, close) == groupAt(value, open, captureStart(value, open, close))

\* value.replace('#', '')
replaceHash(value) ==
    splice(value, firstPosition({i \in 1..Len(value) : value[i] = "#"}),
           firstPosition({i \in 1..Len(value) : value[i] = "#"}), <<>>)

\* group ? `${before}${group}${after}` : otherwise
template(group, before, after, otherwise) ==
    IF Truthy(group) THEN before \o group \o after ELSE otherwise

Converted(case, code) == [case |-> case, code |-> code]

\* case 'role' of convertToPlaywright
playwrightRole(value, roleGroup, accessibleName) ==
    IF Truthy(roleGroup) /\ Truthy(accessibleName)
    THEN <<"p", "a", "g", "e", ".", "g", "e", "t", "B", "y", "R", "o", "l", "e", "(", "'">> \o roleGroup \o <<"'", ",", " ", "{", " ", "n", "a", "m", "e", ":", " ", "'">> \o accessibleName
         \o <<"'", " ", "}", ")">>
    ELSE value

\* convertToPlaywright with role-attr left to the default branch
convertToPlaywright_noRoleAttr(locator) ==
    CASE locator.type = "test-id" ->
            Converted("test-id",
                template(capture(locator.value, <<"d", "a", "t", "a", "-", "t", "e", "s", "t", "i", "d", "=", "\"">>, <<"\"">>),
                         <<"p", "a", "g", "e", ".", "g", "e", "t", "B", "y", "T", "e", "s", "t", "I", "d", "(", "'">>, <<"'", ")">>, locator.value))
      [] locator.type = "role" ->
            Converted("role",
                playwrightRole(locator.value, capture(locator.value, <<"r", "o", "l", "e", "=", "\"">>, <<"\"">>),
                               locator.accessibleName))
      [] locator.type = "aria-label" ->
            Converted("aria-label",
                template(capture(locator.value, <<"a", "r", "i", "a", "-", "l", "a", "b", "e", "l", "=", "\"">>, <<"\"">>),
                         <<"p", "a", "g", "e", ".", "g", "e", "t", "B", "y", "L", "a", "b", "e", "l", "(", "'">>, <<"'", ")">>, locator.value))
      [] locator.type = "text" ->
            Converted("text",
                template(capture(locator.value, <<"t", "e", "x", "t", "=", "\"">>, <<"\"">>),
                         <<"p", "a", "g", "e", ".", "g", "e", "t", "B", "y", "T", "e", "x", "t", "(", "'">>, <<"'", ")">>, locator.value))
      [] locator.type = "placeholder" ->
            Converted("placeholder",
                template(capture(locator.value, <<"p", "l", "a", "c", "e", "h", "o", "l", "d", "e", "r", "=", "\"">>, <<"\"">>),
                         <<"p", "a", "g", "e", ".", "g", "e", "t", "B", "y", "P", "l", "a", "c", "e", "h", "o", "l", "d", "e", "r", "(", "'">>, <<"'", ")">>, locator.value))
      [] locator.type = "alt" ->
            Converted("alt",
                template(capture(locator.value, <<"a", "l", "t", "=", "\"">>, <<"\"">>),
                         <<"p", "a", "g", "e", ".", "g", "e", "t", "B", "y", "A", "l", "t", "T", "e", "x", "t", "(", "'">>, <<"'", ")">>, locator.value))
      [] locator.type = "label" ->
            Converted("label",
                template(capture(locator.value, <<"l", "a", "b", "e", "l", ":", "h", "a", "s", "-", "t", "e", "x", "t", "(", "\"">>, <<"\"", ")">>),
                         <<"p", "a", "g", "e", ".", "g", "e", "t", "B", "y", "L", "a", "b", "e", "l", "(", "'">>, <<"'", ")">>, locator.value))
      [] locator.type = "id" ->
            Converted("id", <<"p", "a", "g", "e", ".", "l", "o", "c", "a", "t", "o", "r", "(", "'", "#">> \o replaceHash(locator.value) \o <<"'", ")">>)
      [] locator.type = "name" ->
            Converted("name",
                template(capture(locator.value, <<"n", "a", "m", "e", "=", "\"">>, <<"\"">>),
                         <<"p", "a", "g", "e", ".", "g", "e", "t", "B", "y", "R", "o", "l", "e", "(", "'", "t", "e", "x", "t", "b", "o", "x", "'", ",", " ", "{", " ", "n", "a", "m", "e", ":", " ", "'">>, <<"'", " ", "}", ")">>,
                         <<"p", "a", "g", "e", ".", "l", "o", "c", "a", "t", "o", "r", "(", "'">> \o locator.value \o <<"'", ")">>))
      [] locator.type = "css" ->
            Converted("css", <<"p", "a", "g", "e", ".", "l", "o", "c", "a", "t", "o", "r", "(", "'">> \o locator.value \o <<"'", ")">>)
      [] locator.type = "xpath" ->
            Converted("xpath", <<"p", "a", "g", "e", ".", "l", "o", "c", "a", "t", "o", "r", "(", "'", "x", "p", "a", "t", "h", "=">> \o locator.value \o <<"'", ")">>)
      [] OTHER ->
            Converted("default", <<"p", "a", "g", "e", ".", "l", "o", "c", "a", "t", "o", "r", "(", "'">> \o locator.value \o <<"'", ")">>)

convertToPlaywright(locator) ==
    CASE locator.type = "test-id" ->
            Converted("test-id",
                template(capture(locator.value, <<"d", "a", "t", "a", "-", "t", "e", "s", "t", "i", "d", "=", "\"">>, <<"\"">>),
                         <<"p", "a", "g", "e", ".", "g", "e", "t", "B", "y", "T", "e", "s", "t", "I", "d", "(", "'">>, <<"'", ")">>, locator.value))
      [] locator.type = "role" ->
            Converted("role",
                playwrightRole(locator.value, capture(locator.value, <<"r", "o", "l", "e", "=", "\"">>, <<"\"">>),
                               locator.accessibleName))
      [] locator.type = "role-attr" ->
            Converted("role-attr",
                template(capture(locator.value, <<"r", "o", "l", "e", "=", "\"">>, <<"\"">>),
                         <<"p", "a", "g", "e", ".", "g", "e", "t", "B", "y", "R", "o", "l", "e", "(", "'">>, <<"'", ")">>, locator.value))
      [] locator.type = "aria-label" ->
            Converted("aria-label",
                template(capture(locator.value, <<"a", "r", "i", "a", "-", "l", "a", "b", "e", "l", "=", "\"">>, <<"\"">>),
                         <<"p", "a", "g", "e", ".", "g", "e", "t", "B", "y", "L", "a", "b", "e", "l", "(", "'">>, <<"'", ")">>, locator.value))
      [] locator.type = "text" ->
            Converted("text",
                template(capture(locator.value, <<"t", "e", "x", "t", "=", "\"">>, <<"\"">>),
                         <<"p", "a", "g", "e", ".", "g", "e", "t", "B", "y", "T", "e", "x", "t", "(", "'">>, <<"'", ")">>, locator.value))
      [] locator.type = "placeholder" ->
            Converted("placeholder",
                template(capture(locator.value, <<"p", "l", "a", "c", "e", "h", "o", "l", "d", "e", "r", "=", "\"">>, <<"\"">>),
                         <<"p", "a", "g", "e", ".", "g", "e", "t", "B", "y", "P", "l", "a", "c", "e", "h", "o", "l", "d", "e", "r", "(", "'">>, <<"'", ")">>, locator.value))
      [] locator.type = "alt" ->
            Converted("alt",
                template(capture(locator.value, <<"a", "l", "t", "=", "\"">>, <<"\"">>),
                         <<"p", "a", "g", "e", ".", "g", "e", "t", "B", "y", "A", "l", "t", "T", "e", "x", "t", "(", "'">>, <<"'", ")">>, locator.value))
      [] locator.type = "label" ->
            Converted("label",
                template(capture(locator.value, <<"l", "a", "b", "e", "l", ":", "h", "a", "s", "-", "t", "e", "x", "t", "(", "\"">>, <<"\"", ")">>),
                         <<"p", "a", "g", "e", ".", "g", "e", "t", "B", "y", "L", "a", "b", "e", "l", "(", "'">>, <<"'", ")">>, locator.value))
      [] locator.type = "id" ->
            Converted("id", <<"p", "a", "g", "e", ".", "l", "o", "c", "a", "t", "o", "r", "(", "'", "#">> \o replaceHash(locator.value) \o <<"'", ")">>)
      [] locator.type = "name" ->
            Converted("name",
                template(capture(locator.value, <<"n", "a", "m", "e", "=", "\"">>, <<"\"">>),
                         <<"p", "a", "g", "e", ".", "g", "e", "t", "B", "y", "R", "o", "l", "e", "(", "'", "t", "e", "x", "t", "b", "o", "x", "'", ",", " ", "{", " ", "n", "a", "m", "e", ":", " ", "'">>, <<"'", " ", "}", ")">>,
                         <<"p", "a", "g", "e", ".", "l", "o", "c", "a", "t", "o", "r", "(", "'">> \o locator.value \o <<"'", ")">>))
      [] locator.type = "css" ->
            Converted("css", <<"p", "a", "g", "e", ".", "l", "o", "c", "a", "t", "o", "r", "(", "'">> \o locator.value \o <<"'", ")">>)
      [] locator.type = "xpath" ->
            Converted("xpath", <<"p", "a", "g", "e", ".", "l", "o", "c", "a", "t", "o", "r", "(", "'", "x", "p", "a", "t", "h", "=">> \o locator.value \o <<"'", ")">>)
      [] OTHER ->
            Converted("default", <<"p", "a", "g", "e", ".", "l", "o", "c", "a", "t", "o", "r", "(", "'">> \o locator.value \o <<"'", ")">>)

convertToSelenium(locator) ==
    CASE locator.type = "id" ->
            Converted("id", <<"d", "r", "i", "v", "e", "r", ".", "f", "i", "n", "d", "_", "e", "l", "e", "m", "e", "n", "t", "(", "B", "y", ".", "I", "D", ",", " ", "'">> \o replaceHash(locator.value)
                            \o <<"'", ")">>)
      [] locator.type = "css" ->
            Converted("css", <<"d", "r", "i", "v", "e", "r", ".", "f", "i", "n", "d", "_", "e", "l", "e", "m", "e", "n", "t", "(", "B", "y", ".", "C", "S", "S", "_", "S", "E", "L", "E", "C", "T", "O", "R", ",", " ", "'">> \o locator.value
                             \o <<"'", ")">>)
      [] locator.type = "xpath" ->
            Converted("xpath", <<"d", "r", "i", "v", "e", "r", ".", "f", "i", "n", "d", "_", "e", "l", "e", "m", "e", "n", "t", "(", "B", "y", ".", "X", "P", "A", "T", "H", ",", " ", "'">> \o locator.value
                               \o <<"'", ")">>)
      [] locator.type = "test-id" ->
            Converted("test-id",
                template(capture(locator.value, <<"d", "a", "t", "a", "-", "t", "e", "s", "t", "i", "d", "=", "\"">>, <<"\"">>),
                         <<"d", "r", "i", "v", "e", "r", ".", "f", "i", "n", "d", "_", "e", "l", "e", "m", "e", "n", "t", "(", "B", "y", ".", "C", "S", "S", "_", "S", "E", "L", "E", "C", "T", "O", "R", ",", " ", "'", "[", "d", "a", "t", "a", "-", "t", "e", "s", "t", "i", "d", "=", "\"">>,
                         <<"\"", "]", "'", ")">>, locator.value))
      [] locator.type = "name" ->
            Converted("name",
                template(capture(locator.value, <<"n", "a", "m", "e", "=", "\"">>, <<"\"">>),
                         <<"d", "r", "i", "v", "e", "r", ".", "f", "i", "n", "d", "_", "e", "l", "e", "m", "e", "n", "t", "(", "B", "y", ".", "N", "A", "M", "E", ",", " ", "'">>, <<"'", ")">>, locator.value))
      [] locator.type = "aria-label" ->
            Converted("aria-label",
                template(capture(locator.value, <<"a", "r", "i", "a", "-", "l", "a", "b", "e", "l", "=", "\"">>, <<"\"">>),
                         <<"d", "r", "i", "v", "e", "r", ".", "f", "i", "n", "d", "_", "e", "l", "e", "m", "e", "n", "t", "(", "B", "y", ".", "C", "S", "S", "_", "S", "E", "L", "E", "C", "T", "O", "R", ",", " ", "'", "[", "a", "r", "i", "a", "-", "l", "a", "b", "e", "l", "=", "\"">>,
                         <<"\"", "]", "'", ")">>, locator.value))
      [] locator.type = "placeholder" ->
            Converted("placeholder",
                template(capture(locator.value, <<"p", "l", "a", "c", "e", "h", "o", "l", "d", "e", "r", "=", "\"">>, <<"\"">>),
                         <<"d", "r", "i", "v", "e", "r", ".", "f", "i", "n", "d", "_", "e", "l", "e", "m", "e", "n", "t", "(", "B", "y", ".", "C", "S", "S", "_", "S", "E", "L", "E", "C", "T", "O", "R", ",", " ", "'", "[", "p", "l", "a", "c", "e", "h", "o", "l", "d", "e", "r", "=", "\"">>,
                         <<"\"", "]", "'", ")">>, locator.value))
      [] locator.type = "label" ->
            Converted("label",
                template(capture(locator.value, <<"l", "a", "b", "e", "l", ":", "h", "a", "s", "-", "t", "e", "x", "t", "(", "\"">>, <<"\"", ")">>),
                         <<"d", "r", "i", "v", "e", "r", ".", "f", "i", "n", "d", "_", "e", "l", "e", "m", "e", "n", "t", "(", "B", "y", ".", "X", "P", "A", "T", "H", ",", " ", "\"", "/", "/", "l", "a", "b", "e", "l", "[", "c", "o", "n", "t", "a", "i", "n", "s", "(", "t", "e", "x", "t", "(", ")", ",", " ", "'">>,
                         <<"'", ")", "]", "/", ".", ".", "/", "/", "*", "[", "@", "n", "a", "m", "e", "]", "\"", ")">>, locator.value))
      [] locator.type = "text" ->
            Converted("text",
                template(capture(locator.value, <<"t", "e", "x", "t", "=", "\"">>, <<"\"">>),
                         <<"d", "r", "i", "v", "e", "r", ".", "f", "i", "n", "d", "_", "e", "l", "e", "m", "e", "n", "t", "(", "B", "y", ".", "X", "P", "A", "T", "H", ",", " ", "\"", "/", "/", "*", "[", "c", "o", "n", "t", "a", "i", "n", "s", "(", "t", "e", "x", "t", "(", ")", ",", " ", "'">>,
                         <<"'", ")", "]", "\"", ")">>, locator.value))
      [] locator.type = "alt" ->
            Converted("alt",
                template(capture(locator.value, <<"a", "l", "t", "=", "\"">>, <<"\"">>),
                         <<"d", "r", "i", "v", "e", "r", ".", "f", "i", "n", "d", "_", "e", "l", "e", "m", "e", "n", "t", "(", "B", "y", ".", "C", "S", "S", "_", "S", "E", "L", "E", "C", "T", "O", "R", ",", " ", "'", "i", "m", "g", "[", "a", "l", "t", "=", "\"">>,
                         <<"\"", "]", "'", ")">>, locator.value))
      [] locator.type = "role" ->
            Converted("role",
                template(capture(locator.value, <<"r", "o", "l", "e", "=", "\"">>, <<"\"">>),
                         <<"d", "r", "i", "v", "e", "r", ".", "f", "i", "n", "d", "_", "e", "l", "e", "m", "e", "n", "t", "(", "B", "y", ".", "C", "S", "S", "_", "S", "E", "L", "E", "C", "T", "O", "R", ",", " ", "'", "[", "r", "o", "l", "e", "=", "\"">>,
                         <<"\"", "]", "'", ")">>, locator.value))
      [] OTHER ->
            Converted("default", <<"d", "r", "i", "v", "e", "r", ".", "f", "i", "n", "d", "_", "e", "l", "e", "m", "e", "n", "t", "(", "B", "y", ".", "C", "S", "S", "_", "S", "E", "L", "E", "C", "T", "O", "R", ",", " ", "'">>
                                 \o locator.value \o <<"'", ")">>)

(***************************************************************************)
(* Documents.  Every document has the root element (node 1) and the body   *)
(* (node 2); the other nodes are the page's content.                       *)
(***************************************************************************)
Elem(tagName, parent, attrs, text) ==
    [tagName |-> tagName, parent |-> parent, attrs |-> attrs, text |-> text,
     width |-> 80, height |-> 20, display |-> "block", visibility |-> "visible",
     opacity |-> "1"]

\* the same element, not rendered
Hidden(e) == [e EXCEPT !.width = 0, !.height = 0, !.display = "none"]

NoAttrs == [a \in {} |-> <<>>]

T_HTML == <<"H", "T", "M", "L">>

T_BODY == <<"B", "O", "D", "Y">>

T_DIV == <<"D", "I", "V">>

T_SPAN == <<"S", "P", "A", "N">>

T_LABEL == <<"L", "A", "B", "E", "L">>

Page(content) == <<Elem(T_HTML, 0, NoAttrs, <<>>), Elem(T_BODY, 1, NoAttrs, <<>>)>> \o content

\* <button data-testid="login-btn" aria-label="Sign in">Login</button>, unique
LoginButton ==
    Elem(T_BUTTON, 2,
         ("data-testid" :> <<"l", "o", "g", "i", "n", "-", "b", "t", "n">>) @@ ("aria-label" :> <<"S", "i", "g", "n", " ", "i", "n">>),
         <<"L", "o", "g", "i", "n">>)

\* <input placeholder="Username">
UsernameInput == Elem(T_INPUT, 2, ("placeholder" :> <<"U", "s", "e", "r", "n", "a", "m", "e">>), <<>>)

\* <button aria-label="Save">Click me</button>
SaveButton == Elem(T_BUTTON, 2, ("aria-label" :> <<"S", "a", "v", "e">>), <<"C", "l", "i", "c", "k", " ", "m", "e">>)

LoginPage == Page(<<UsernameInput, LoginButton>>)

SavePage == Page(<<Elem(T_DIV, 2, NoAttrs, <<>>), SaveButton>>)

\* an element whose id looks generated, beside one whose id does not
JssPage ==
    Page(<<Elem(T_DIV, 2, ("id" :> <<"j", "s", "s", "4", "2">>), <<"M", "e", "n", "u">>),
           Elem(T_DIV, 2, ("id" :> <<"m", "e", "n", "u">>), <<"M", "e", "n", "u">>)>>)

\* an input whose id holds a double quote
QuotePage ==
    Page(<<Elem(T_INPUT, 2, ("id" :> <<"a", "\"", "b">>) @@ ("placeholder" :> <<"C", "i", "t", "y">>), <<>>),
           Elem(T_DIV, 2, ("id" :> <<"c", "\"", "d">>) @@ ("aria-label" :> <<"M", "a", "p">>), <<>>)>>)

ScenarioDocuments == {LoginPage, SavePage, JssPage, QuotePage}

\* the number of copies of the target element added beside it
MaxClones == 2

\* the largest match count the scoring inputs take
MaxMatchCount == 8

\* attribute sets of the name-resolution family
IdProfiles ==
    <<NoAttrs,
      ("id" :> <<"u", "s", "e", "r">>) @@ ("placeholder" :> <<"U", "s", "e", "r", "n", "a", "m", "e">>),
      ("id" :> <<"i", "t", "e", "m">>) @@ ("placeholder" :> <<"S", "e", "a", "r", "c", "h">>) @@ ("alt" :> <<"L", "o", "g", "o">>)>>

OptionalAttr(a, v) == IF v = <<>> THEN NoAttrs ELSE (a :> v)

\* a page with a labelling span (id lbl), a label for "user" and one target
NamePage(tagName, ariaLabel, ariaLabelledBy, text, profile) ==
    Page(<<Elem(T_SPAN, 2, ("id" :> <<"l", "b", "l">>), <<" ", "F", "u", "l", "l", " ", "n", "a", "m", "e", " ">>),
           Elem(T_LABEL, 2, ("for" :> <<"u", "s", "e", "r">>), <<"U", "s", "e", "r">>),
           Elem(tagName, 2,
                OptionalAttr("aria-label", ariaLabel)
                @@ OptionalAttr("aria-labelledby", ariaLabelledBy)
                @@ IdProfiles[profile],
                text)>>)

NameDocuments ==
    {NamePage(t, al, lb, tx, p) :
        t \in {T_BUTTON, T_INPUT, T_A, T_IMG, T_DIV},
        al \in {<<>>, <<"S", "a", "v", "e">>},
        lb \in {<<>>, <<"l", "b", "l">>, <<"n", "o", "l", "b", "l">>},
        tx \in {<<>>, <<"C", "l", "i", "c", "k", " ", "m", "e">>},
        p \in 1..Len(IdProfiles)}

\* the targets of the match-count family
CloneTargets ==
    {LoginButton,
     Elem(T_DIV, 2, ("class" :> <<"c", "a", "r", "d", " ", "b", "i", "g">>) @@ ("title" :> <<"I", "t", "e", "m">>), <<"I", "t", "e", "m">>),
     Elem(T_INPUT, 2, ("name" :> <<"q">>) @@ ("type" :> <<"t", "e", "x", "t">>) @@ ("role" :> <<"s", "e", "a", "r", "c", "h", "b", "o", "x">>), <<>>),
     Elem(T_DIV, 2, ("id" :> <<"j", "s", "s", "4", "2">>), <<>>)}

\* a page with a target and `clones` more copies of it, rendered or not
ClonePage(target, clones, rendered) ==
    Page([k \in 1..(clones + 1) |-> IF rendered THEN target ELSE Hidden(target)])

CloneDocuments ==
    {ClonePage(t, c, r) : t \in CloneTargets, c \in 0..MaxClones, r \in BOOLEAN}

T_H2 == <<"H", "2">>

\* a page with one target that may carry a role, a type and an aria-label
RolePage(tagName, role, type, ariaLabel) ==
    Page(<<Elem(tagName, 2,
                OptionalAttr("role", role) @@ OptionalAttr("type", type)
                @@ OptionalAttr("aria-label", ariaLabel),
                <<>>)>>)

RoleDocuments ==
    {RolePage(t, r, ty, al) :
        t \in {T_BUTTON, T_INPUT, T_SELECT, T_H2, T_NAV, T_DIV},
        r \in {<<>>, <<"t", "a", "b">>},
        ty \in {<<>>, <<"c", "h", "e", "c", "k", "b", "o", "x">>, <<"s", "u", "b", "m", "i", "t">>},
        al \in {<<>>, <<"G", "o">>}}

\* the test identifier attributes, in the order generateLocators reads them
TestIdAttributes == <<"data-testid", "data-test-id", "data-test", "data-qa", "data-cy">>

TestIdValues == <<<<"v", "1">>, <<"v", "2">>, <<"v", "3">>, <<"v", "4">>, <<"v", "5">>>>

\* a page with one button that carries the test identifier attributes of the
\* positions in present, each with a value of its own
TestIdPage(present) ==
    Page(<<Elem(T_BUTTON, 2, [a \in {TestIdAttributes[k] : k \in present} |->
                TestIdValues[CHOOSE k \in present : TestIdAttributes[k] = a]], <<>>)>>)

TestIdDocuments == {TestIdPage(present) : present \in (SUBSET (1..5)) \ {{}}}

\* a text of n characters; with a gap, two of them are adjacent spaces
textOfLength(n, gap) ==
    [k \in 1..n |-> IF gap /\ k \in {2, 3} THEN " " ELSE "x"]

\* a page whose one element holds a text of n characters
TextPage(n, gap) == Page(<<Elem(T_DIV, 2, NoAttrs, textOfLength(n, gap))>>)

TextDocuments ==
    {TextPage(n, gap) :
        n \in {4, MaxTextLength - 1, MaxTextLength, MaxTextLength + 1, MaxTextLength + 2},
        gap \in BOOLEAN}

Documents ==
    ScenarioDocuments \cup NameDocuments \cup CloneDocuments \cup RoleDocuments
    \cup TestIdDocuments \cup TextDocuments

(***************************************************************************)
(* State                                                                   *)
(*   document         the page the content script runs in                  *)
(*   selectedElement  this.selectedElement (0 is null)                     *)
(*   info             the last buildLocatorInfo call: its element, the     *)
(*                    accessible name resolved for it, whether it raised,  *)
(*                    the generated list and the ranked list it returned   *)
(*   scoreInput       the values a calculateScore call reads               *)
(*   scoreOutput      what rankLocators stores for that call               *)
(*   call             one call of a helper of the inspector: the method,   *)
(*                    its argument and, once it has returned, its result   *)
(*   inspector        the LocatorInspector object and what it has put on   *)
(*                    the page: enabled, tooltip, lastHighlighted, panel,  *)
(*                    the listeners registered on the document, the panel  *)
(*                    containers attached to it and those whose panel.html *)
(*                    fetch is in flight                                   *)
(***************************************************************************)
VARIABLES document, selectedElement, info, scoreInput, scoreOutput, call, inspector

vars == <<document, selectedElement, info, scoreInput, scoreOutput, call, inspector>>

NoInfo ==
    [element |-> 0, name |-> Returned(Null), threw |-> FALSE, generated |-> <<>>,
     locators |-> <<>>]

NoScoreInput == [type |-> "none", matchCount |-> 0, dynamic |-> FALSE, visible |-> FALSE,
                 length |-> 0]

NoScoreOutput == [called |-> FALSE, score |-> 0, stability |-> "none"]

\* the object the constructor leaves, on a page it has not touched.  A
\* listener is [type, fn], fn the identity of the function registered; bound
\* counts the functions Function.prototype.bind has made, created the panel
\* containers document.createElement has made, toggles the toggle messages;
\* event is the last event dispatched on the document and handled the number
\* of handler invocations it caused
NoInspector ==
    [enabled |-> FALSE, tooltip |-> FALSE, lastHighlighted |-> 0, panel |-> 0,
     listeners |-> {}, attached |-> {}, pending |-> {}, bound |-> 0, created |-> 0,
     toggles |-> 0, event |-> "none", handled |-> 0]

NoCall == [method |-> "none", argument |-> <<>>, returned |-> FALSE, result |-> <<>>]

Init ==
    /\ document \in Documents
    /\ selectedElement = 0
    /\ info = NoInfo
    /\ scoreInput = NoScoreInput
    /\ scoreOutput = NoScoreOutput
    /\ inspector = NoInspector
    /\ call = NoCall

\* a caller (onMouseOver, the getCurrentElement message, openPanel) selects an
\* element of the page and calls buildLocatorInfo on it
BuildLocatorInfo(element) ==
    /\ selectedElement' = element
    /\ info' = buildLocatorInfo(document, element)
    /\ UNCHANGED <<document, scoreInput, scoreOutput, call, inspector>>

Next == \E element \in Nodes(document) : BuildLocatorInfo(element)

Spec == Init /\ [][Next]_vars

(***************************************************************************)
(* The scoring engine alone: rankLocators' step for one locator, on the    *)
(* values calculateScore reads.  A role expression (role="...") is never a *)
(* valid selector, so its match count is 0; a text-query count is >= 1.    *)
(***************************************************************************)
Kinds ==
    <<"test-id", "role", "aria-label", "role-attr", "label", "text", "placeholder",
      "alt", "title", "name", "id", "css", "xpath">>

KindSet == {Kinds[k] : k \in 1..Len(Kinds)}

Lengths == {10, 29, 30, 150, 151}

FeasibleCount(type, matchCount) ==
    /\ type = "role" => matchCount = 0
    /\ type \in {"label", "text"} => matchCount >= 1

ScoreInputs ==
    {i \in [type : KindSet, matchCount : 0..MaxMatchCount, dynamic : BOOLEAN,
             visible : BOOLEAN, length : Lengths] : FeasibleCount(i.type, i.matchCount)}

InitScore ==
    /\ document = LoginPage
    /\ selectedElement = 0
    /\ info = NoInfo
    /\ scoreInput \in ScoreInputs
    /\ scoreOutput = NoScoreOutput
    /\ inspector = NoInspector
    /\ call = NoCall

\* the map step of rankLocators for one locator
ScoreLocator ==
    /\ ~scoreOutput.called
    /\ scoreOutput' =
          LET score == scoreOf(scoreInput.type, scoreInput.matchCount, scoreInput.dynamic,
                               scoreInput.visible, scoreInput.length)
          IN  [called |-> TRUE, score |-> MathRound(score),
               stability |-> getStabilityLevel(score)]
    /\ UNCHANGED <<document, selectedElement, info, scoreInput, call, inspector>>

NextScore == ScoreLocator

SpecScore == InitScore /\ [][NextScore]_vars


(***************************************************************************)
(* getMatchCount alone: one call on a locator of the document, one that    *)
(* generateLocators produced for one of its elements or one of the         *)
(* expressions below, well formed or not.                                  *)
(***************************************************************************)
CssExpressions ==
    {<<"d", "i", "v">>, <<"d", "i", "v", "[">>, <<"r", "o", "l", "e", "=", "\"", "b", "u", "t", "t", "o", "n", "\"">>, <<"#", "m", "e", "n", "u">>, <<"b", "u", "t", "t", "o", "n", " ", ">", " ">>, <<":", "b", "a", "d">>,
     <<"i", "n", "p", "u", "t", "[", "n", "a", "m", "e", "=", "\"", "q", "\"", "]">>, <<".", "c", "a", "r", "d">>, <<>>}

XPathExpressions ==
    {<<"/", "h", "t", "m", "l", "/", "b", "o", "d", "y", "/", "d", "i", "v">>, <<"/", "h", "t", "m", "l", "/", "b", "o", "d", "y", "/", "d", "i", "v", "[", "2", "]">>, <<"/", "/", "*", "[", "@", "i", "d", "=", "\"", "m", "e", "n", "u", "\"", "]">>, <<"/", "h", "t", "m", "l", "[">>,
     <<"h", "t", "m", "l", "/", "b", "o", "d", "y">>, <<"/", "/", "*", "[", "@", "i", "d", "=", "\"", "m", "e", "n", "u", "\"">>, <<"/", "h", "t", "m", "l", "/", "b", "o", "d", "y", "/", "b", "u", "t", "t", "o", "n">>, <<>>}

PlaywrightExpressions ==
    {<<"t", "e", "x", "t", "=", "\"", "M", "e", "n", "u", "\"">>, <<"d", "i", "v", " ", "t", "e", "x", "t", "=", "\"", "M", "e", "n", "u", "\"">>, <<"l", "a", "b", "e", "l", ":", "h", "a", "s", "-", "t", "e", "x", "t", "(", "\"", "U", "s", "e", "r", "\"", ")">>,
     <<"s", "p", "a", "n", ":", "h", "a", "s", "-", "t", "e", "x", "t", "(", "\"", "x", "\"", ")">>, <<"d", "i", "v", " ", ">", ">", " ", "t", "e", "x", "t", "=", "\"", "x", "\"">>, <<"b", "u", "t", "t", "o", "n", " ", "t", "e", "x", "t", "=", "\"", "L", "o", "g", "i", "n", "\"">>,
     <<"s", "p", "a", "n", " ", "t", "e", "x", "t", "=", "\"", "x", "\"">>}

WrittenLocators ==
    {Locator("css", v, "CSS selector", "css", Null) : v \in CssExpressions}
    \cup {Locator("xpath", v, "XPath selector", "xpath", Null) : v \in XPathExpressions}
    \cup {Locator("text", v, "Visible text content", "playwright", Null) :
            v \in PlaywrightExpressions}

\* the members of a list
membersOf(list) == {list[k] : k \in 1..Len(list)}

\* the locators generateLocators returns for the elements of the document
generatedLocators(doc) ==
    UNION {membersOf(generateLocators(doc, element).locators) : element \in Nodes(doc)}

MatchDocuments ==
    ScenarioDocuments \cup CloneDocuments
    \cup {NamePage(T_INPUT, <<>>, <<>>, <<>>, 2)}

InitMatch ==
    /\ document \in MatchDocuments
    /\ selectedElement = 0
    /\ info = NoInfo
    /\ scoreInput = NoScoreInput
    /\ scoreOutput = NoScoreOutput
    /\ inspector = NoInspector
    /\ call \in {[method |-> "getMatchCount", argument |-> l, returned |-> FALSE,
                  result |-> 0] : l \in WrittenLocators \cup generatedLocators(document)}

\* const matchCount = this.getMatchCount(locator)
GetMatchCount ==
    /\ call.method = "getMatchCount"
    /\ ~call.returned
    /\ call' = [call EXCEPT !.returned = TRUE,
                            !.result = getMatchCount(document, call.argument)]
    /\ UNCHANGED <<document, selectedElement, info, scoreInput, scoreOutput, inspector>>

NextMatch == GetMatchCount

SpecMatch == InitMatch /\ [][NextMatch]_vars

(***************************************************************************)
(* The framework converters alone: one call of convertToPlaywright or      *)
(* convertToSelenium on a locator generateLocators produced, or on a       *)
(* locator of one of the 13 kinds whose expression holds no literal.       *)
(***************************************************************************)
ConvertDocuments == ScenarioDocuments \cup CloneDocuments \cup RoleDocuments

ConvertLocators ==
    UNION {generatedLocators(doc) : doc \in ConvertDocuments}
    \cup {Locator(kind, <<"x">>, "none", "css", Null) : kind \in KindSet}

InitConvert ==
    /\ document = LoginPage
    /\ selectedElement = 0
    /\ info = NoInfo
    /\ scoreInput = NoScoreInput
    /\ scoreOutput = NoScoreOutput
    /\ inspector = NoInspector
    /\ call \in {[method |-> m, argument |-> l, returned |-> FALSE,
                  result |-> Converted("none", <<>>)] :
                    m \in {"convertToPlaywright", "convertToSelenium"},
                    l \in ConvertLocators}

\* case 'playwright' of the framework switch
ConvertToPlaywright ==
    /\ call.method = "convertToPlaywright"
    /\ ~call.returned
    /\ call' = [call EXCEPT !.returned = TRUE,
                            !.result = convertToPlaywright(call.argument)]
    /\ UNCHANGED <<document, selectedElement, info, scoreInput, scoreOutput, inspector>>

\* case 'selenium' of the framework switch
ConvertToSelenium ==
    /\ call.method = "convertToSelenium"
    /\ ~call.returned
    /\ call' = [call EXCEPT !.returned = TRUE,
                            !.result = convertToSelenium(call.argument)]
    /\ UNCHANGED <<document, selectedElement, info, scoreInput, scoreOutput, inspector>>

NextConvert == ConvertToPlaywright \/ ConvertToSelenium

SpecConvert == InitConvert /\ [][NextConvert]_vars

(***************************************************************************)
(* getFullDOMTree.  The nodes of the document carry their type here: an    *)
(* element, a text node, a comment or a processing instruction, each with  *)
(* its parent, listed in document order.  The first node is the            *)
(* documentElement.                                                        *)
(***************************************************************************)
ELEMENT_NODE == 1

TEXT_NODE == 3

MaxTreeDepth == 20

ElementNode(tagName, parent, attrs) ==
    [nodeType |-> ELEMENT_NODE, nodeName |-> tagName, parent |-> parent, attrs |-> attrs,
     data |-> <<>>]

TextNode(parent, data) ==
    [nodeType |-> TEXT_NODE, nodeName |-> <<"#", "t", "e", "x", "t">>, parent |-> parent, attrs |-> NoAttrs,
     data |-> data]

CommentNode(parent, data) ==
    [nodeType |-> 8, nodeName |-> <<"#", "c", "o", "m", "m", "e", "n", "t">>, parent |-> parent, attrs |-> NoAttrs,
     data |-> data]

ProcessingInstruction(parent, target, data) ==
    [nodeType |-> 7, nodeName |-> target, parent |-> parent, attrs |-> NoAttrs,
     data |-> data]

\* Node.childNodes: the children of every type, in document order
childNodes(doc, node) == ascending({c \in Nodes(doc) : doc[c].parent = node})

RECURSIVE serializeNode(_, _, _)
RECURSIVE serializeChildren(_, _, _)
\* serializeNode for depth <= 20; the null it returns beyond that depth is
\* the test of the children loop below
serializeNode(doc, node, depth) ==
    IF doc[node].nodeType = ELEMENT_NODE
    THEN [nodeName |-> doc[node].nodeName, nodeType |-> doc[node].nodeType,
          tagName |-> toLowerCase(doc[node].nodeName),
          attributes |-> doc[node].attrs,
          children |-> serializeChildren(doc, childNodes(doc, node), depth + 1)]
    ELSE IF doc[node].nodeType = TEXT_NODE /\ Truthy(trim(doc[node].data))
    THEN [nodeName |-> doc[node].nodeName, nodeType |-> doc[node].nodeType,
          textContent |-> trim(doc[node].data)]
    ELSE [nodeName |-> doc[node].nodeName, nodeType |-> doc[node].nodeType]

\* the loop over node.childNodes: a child is pushed unless its result is null
serializeChildren(doc, children, depth) ==
    IF children = <<>> THEN <<>>
    ELSE (IF depth > MaxTreeDepth THEN <<>> ELSE <<serializeNode(doc, children[1], depth)>>)
         \o serializeChildren(doc, Tail(children), depth)

getFullDOMTree(doc) == serializeNode(doc, documentElement, 0)

\* the kinds of child node the tree documents are built from
ChildKinds == {"element", "text", "blank", "comment", "instruction"}

childOfKind(kind, parent) ==
    CASE kind = "element" -> ElementNode(T_SPAN, parent, ("id" :> <<"n", "o", "t", "e">>))
      [] kind = "text" -> TextNode(parent, <<" ", "H", "i", " ">>)
      [] kind = "blank" -> TextNode(parent, <<" ", "\n">>)
      [] kind = "comment" -> CommentNode(parent, <<"t", "o", "d", "o">>)
      [] kind = "instruction" -> ProcessingInstruction(parent, <<"x", "m", "l", "-", "s", "t", "y", "l", "e", "s", "h", "e", "e", "t">>, <<"h", "r", "e", "f">>)

\* <html><body> outer children, then a <div> with the inner children
TreePage(outer, inner) ==
    <<ElementNode(T_HTML, 0, NoAttrs), ElementNode(T_BODY, 1, NoAttrs)>>
    \o [k \in 1..Len(outer) |-> childOfKind(outer[k], 2)]
    \o <<ElementNode(T_DIV, 2, ("class" :> <<"b", "o", "x">>))>>
    \o [k \in 1..Len(inner) |-> childOfKind(inner[k], Len(outer) + 3)]

\* a chain of nested <div> that reaches below the depth serializeNode follows,
\* with a comment in the innermost one
DeepPage(depth) ==
    <<ElementNode(T_HTML, 0, NoAttrs)>>
    \o [k \in 1..depth |-> ElementNode(T_DIV, k, NoAttrs)]
    \o <<CommentNode(depth + 1, <<"d", "e", "e", "p">>)>>

MaxChildren == 2

TreeDocuments ==
    {TreePage(outer, inner) :
        outer \in UNION {[1..n -> ChildKinds] : n \in 0..MaxChildren},
        inner \in UNION {[1..n -> ChildKinds] : n \in 0..1}}
    \cup {DeepPage(d) : d \in {MaxTreeDepth - 1, MaxTreeDepth, MaxTreeDepth + 1}}

InitTree ==
    /\ document \in TreeDocuments
    /\ selectedElement = 0
    /\ info = NoInfo
    /\ scoreInput = NoScoreInput
    /\ scoreOutput = NoScoreOutput
    /\ inspector = NoInspector
    /\ call = [method |-> "getFullDOMTree", argument |-> <<>>, returned |-> FALSE,
               result |-> <<>>]

GetFullDOMTree ==
    /\ call.method = "getFullDOMTree"
    /\ ~call.returned
    /\ call' = [call EXCEPT !.returned = TRUE, !.result = getFullDOMTree(document)]
    /\ UNCHANGED <<document, selectedElement, info, scoreInput, scoreOutput, inspector>>

NextTree == GetFullDOMTree

SpecTree == InitTree /\ [][NextTree]_vars

(***************************************************************************)
(* getFullARIATree.  The result is modelled without its timestamp and url. *)
(***************************************************************************)
T_SCRIPT == <<"S", "C", "R", "I", "P", "T">>

T_STYLE == <<"S", "T", "Y", "L", "E">>

T_NOSCRIPT == <<"N", "O", "S", "C", "R", "I", "P", "T">>

T_P == <<"P">>

T_I == <<"I">>

\* the keys of ariaNode read with getAttribute under their own name
AriaAttributes ==
    {"role", "aria-label", "aria-labelledby", "aria-describedby", "aria-hidden",
     "aria-expanded", "aria-pressed", "aria-checked", "aria-selected", "aria-disabled",
     "aria-readonly", "aria-required", "aria-invalid", "aria-live", "aria-atomic",
     "aria-relevant", "tabindex", "name"}

AriaKeys == {"tag", "id", "dataTestId", "textContent"} \cup AriaAttributes

\* the value the object literal gives a key; undefined is Null as well
ariaValue(doc, node, key) ==
    CASE key = "tag" -> toLowerCase(doc[node].tagName)
      [] key = "id" -> IF Truthy(elementId(doc, node)) THEN elementId(doc, node) ELSE Null
      [] key = "dataTestId" -> getAttribute(doc, node, "data-testid")
      [] key = "textContent" -> substring0(trim(textContent(doc, node)), 100)
      [] OTHER -> getAttribute(doc, node, key)

\* the object after the null and undefined values are deleted
ariaNodeOf(doc, node) ==
    [key \in {k \in AriaKeys : ariaValue(doc, node, k) # Null} |-> ariaValue(doc, node, key)]

\* ariaNode[key], undefined (Null) for a deleted key
ariaRead(ariaNode, key) == IF key \in DOMAIN ariaNode THEN ariaNode[key] ELSE Null

hasAriaAttr(ariaNode) ==
    \E attr \in {"role", "aria-label", "aria-expanded", "aria-pressed"} :
        Truthy(ariaRead(ariaNode, attr))

\* the string holds the word somewhere
contains(s, word) == \E i \in 1..Len(s) : OccursAt(s, i, word)

\* /^H[1-6]$|BUTTON|A|FORM|INPUT|SELECT|TEXTAREA/.test(tagName): the anchors
\* belong to the first alternative only
isSemanticHTML(tagName) ==
    \/ Len(tagName) = 2 /\ tagName[1] = "H" /\ tagName[2] \in {"1", "2", "3", "4", "5", "6"}
    \/ \E word \in {T_BUTTON, T_A, T_FORM, T_INPUT, T_SELECT, T_TEXTAREA} :
          contains(tagName, word)

hasIdentifier(ariaNode) ==
    \/ Truthy(ariaRead(ariaNode, "id"))
    \/ Truthy(ariaRead(ariaNode, "name"))
    \/ Truthy(ariaRead(ariaNode, "dataTestId"))

hasContent(ariaNode) ==
    Truthy(ariaRead(ariaNode, "textContent")) /\ Len(ariaRead(ariaNode, "textContent")) > 0

\* the two continue statements on the tag and on the computed style
ariaSkipped(doc, node) ==
    \/ doc[node].tagName \in {T_SCRIPT, T_STYLE, T_NOSCRIPT}
    \/ doc[node].display = "none"
    \/ doc[node].visibility = "hidden"

ariaIncluded(doc, node, ariaNode) ==
    \/ hasAriaAttr(ariaNode)
    \/ isSemanticHTML(doc[node].tagName)
    \/ hasIdentifier(ariaNode)
    \/ hasContent(ariaNode)

\* the elements the tree walker rooted at body visits, in document order
walkedElements(doc) == ascending({n \in Nodes(doc) : body \in ancestors(doc, n)})

ariaElements(doc) ==
    SelectSeq(walkedElements(doc),
              LAMBDA n : ~ariaSkipped(doc, n) /\ ariaIncluded(doc, n, ariaNodeOf(doc, n)))

ariaNodesAt(doc, elements) == [k \in 1..Len(elements) |-> ariaNodeOf(doc, elements[k])]

getFullARIATree(doc) ==
    [totalAriaNodes |-> Len(ariaElements(doc)),
     ariaNodes |-> ariaNodesAt(doc, ariaElements(doc))]

AriaTags == {T_SPAN, T_DIV, T_P, T_BUTTON, T_H2, T_NAV, T_LABEL, T_SCRIPT}

AriaAttrProfiles ==
    {NoAttrs,
     "role" :> <<"a", "l", "e", "r", "t">>,
     "role" :> <<>>,
     "aria-label" :> <<"C", "l", "o", "s", "e">>,
     "aria-expanded" :> <<"f", "a", "l", "s", "e">>,
     "aria-pressed" :> <<"t", "r", "u", "e">>,
     "aria-hidden" :> <<"t", "r", "u", "e">>,
     "title" :> <<"H", "i", "n", "t">>,
     "id" :> <<"m", "a", "i", "n">>,
     "name" :> <<"q">>,
     "data-testid" :> <<"b", "o", "x">>}

AriaTexts == {<<>>, <<" ", "\n">>, <<" ", "H", "i", " ">>}

styled(e, display, visibility) == [e EXCEPT !.display = display, !.visibility = visibility]

\* <body> the target and an empty <i> after it
AriaPage(tagName, attrs, text, display, visibility) ==
    Page(<<styled(Elem(tagName, 2, attrs, text), display, visibility),
           Elem(T_I, 2, NoAttrs, <<>>)>>)

AriaDocuments ==
    {AriaPage(t, a, x, s[1], s[2]) :
        t \in AriaTags, a \in AriaAttrProfiles, x \in AriaTexts,
        s \in {<<"block", "visible">>, <<"none", "visible">>, <<"block", "hidden">>}}

InitAria ==
    /\ document \in AriaDocuments
    /\ selectedElement = 0
    /\ info = NoInfo
    /\ scoreInput = NoScoreInput
    /\ scoreOutput = NoScoreOutput
    /\ inspector = NoInspector
    /\ call = [method |-> "getFullARIATree", argument |-> <<>>, returned |-> FALSE,
               result |-> <<>>]

GetFullARIATree ==
    /\ call.method = "getFullARIATree"
    /\ ~call.returned
    /\ call' = [call EXCEPT !.returned = TRUE, !.result = getFullARIATree(document)]
    /\ UNCHANGED <<document, selectedElement, info, scoreInput, scoreOutput, inspector>>

NextAria == GetFullARIATree

SpecAria == InitAria /\ [][NextAria]_vars

(***************************************************************************)
(* hasDynamicParts called again and again: call.argument is the strings    *)
(* passed so far, call.result the values returned for them.  The pattern   *)
(* literals are evaluated anew by every call and none carries the g or y   *)
(* flag, so test neither reads nor writes a lastIndex.                     *)
(***************************************************************************)
MaxCalls == 2

Uuid == <<"5", "5", "0", "e", "8", "4", "0", "0", "-", "e", "2", "9", "b", "-", "4", "1", "d", "4", "-", "a", "7", "1", "6", "-", "4", "4", "6", "6", "5", "5", "4", "4", "0", "0", "0", "0">>

DynamicInputs ==
    {<<>>, Uuid, <<"j", "s", "s", "4", "2">>, <<"s", "u", "b", "m", "i", "t", "-", "b", "u", "t", "t", "o", "n">>,
     <<"A", "B", "C", "D", "E", "F", "A", "B", "-", "a", "b", "c", "d", "-", "a", "b", "c", "d", "-", "a", "b", "c", "d", "-", "a", "b", "c", "d", "e", "f", "a", "b", "c", "d", "e", "f">>, <<"a", "b", "c", "d", "e", "f", "a", "b", "-", "a", "b", "c", "d", "-", "a", "b", "c", "d", "-", "a", "b", "c", "d", "-", "a", "b", "c", "d", "e", "f", "a", "b", "c", "d", "e">>,
     <<"a", "b", "c", "d", "e", "f", "g", "b", "-", "a", "b", "c", "d", "-", "a", "b", "c", "d", "-", "a", "b", "c", "d", "-", "a", "b", "c", "d", "e", "f", "a", "b", "c", "d", "e", "f">>, <<"a", "b", "c", "d", "e", "f", "a", "b", "_", "a", "b", "c", "d", "-", "a", "b", "c", "d", "-", "a", "b", "c", "d", "-", "a", "b", "c", "d", "e", "f", "a", "b", "c", "d", "e", "f">>,
     <<"J", "S", "S", "7">>, <<"j", "s", "s">>, <<"j", "s", "5">>, <<"1", "2", "3", "4">>, <<"1", "2", "3">>, <<"b", "t", "n", "-", "1", "2", "3", "-", "4", "5">>, <<"1", "2", "3", "4", "5", "6", "7", "8", "9", "0", "1", "2", "3">>,
     <<"#", "a", "1", "b", "2", "c", "3">>, <<"#", "A", "1", "B", "2", "C">>, <<"#", "g", "g", "g", "1", "1", "1">>, <<"a", "1", "b", "2", "c", "3">>, <<"a", "b", "1", "c", "d", "2">>, <<"a", "b", "1", "c", "d">>, <<"1", "a", "2", "b">>,
     <<"a", "1", "-", "b", "2">>, <<":", "8", "0">>, <<"h", "o", "s", "t", ":", "8", "0", "8", "0">>, <<"a", ":", "b">>, <<"8", "0", ":">>, <<"i", "t", "e", "m">>}

InitDynamic ==
    /\ document = LoginPage
    /\ selectedElement = 0
    /\ info = NoInfo
    /\ scoreInput = NoScoreInput
    /\ scoreOutput = NoScoreOutput
    /\ inspector = NoInspector
    /\ call = [method |-> "hasDynamicParts", argument |-> <<>>, returned |-> FALSE,
               result |-> <<>>]

HasDynamicParts ==
    /\ call.method = "hasDynamicParts"
    /\ Len(call.argument) < MaxCalls
    /\ \E str \in DynamicInputs :
          call' = [call EXCEPT !.argument = Append(@, str),
                               !.returned = TRUE,
                               !.result = Append(@, hasDynamicParts(str))]
    /\ UNCHANGED <<document, selectedElement, info, scoreInput, scoreOutput, inspector>>

NextDynamic == HasDynamicParts

SpecDynamic == InitDynamic /\ [][NextDynamic]_vars

(***************************************************************************)
(* The synthesizer on nested pages: a chain of elements below body, each   *)
(* the only child of the one before, and in the innermost one a <span> and *)
(* some <input> siblings, the last of which may carry an id.               *)
(***************************************************************************)
MaxPathDepth == 6

MaxSiblings == 3

ChainTags == <<T_DIV, T_MAIN, T_FORM>>

ChainAttrs ==
    <<NoAttrs, "class" :> <<"b", "o", "x", " ", "w", "i", "d", "e">>, "name" :> <<"l", "o", "g", "i", "n">>>>

chainElement(level) ==
    Elem(ChainTags[(level % 3) + 1], level + 1, ChainAttrs[(level % 3) + 1], <<>>)

PathIds == {<<>>, <<"u", "s", "e", "r">>, <<"f", "o", "r", "m", ":", "u", "s", "e", "r">>}

\* the children of the innermost element, whose node number is parent
leaves(parent, siblings, id) ==
    <<Elem(T_SPAN, parent, NoAttrs, <<"N", "a", "m", "e">>)>>
    \o [k \in 1..siblings |->
          Elem(T_INPUT, parent,
               ("type" :> <<"t", "e", "x", "t">>) @@ (IF k = siblings THEN OptionalAttr("id", id) ELSE NoAttrs),
               <<>>)]

PathPage(depth, siblings, id) ==
    Page([level \in 1..depth |-> chainElement(level)] \o leaves(depth + 2, siblings, id))

PathDocuments ==
    {PathPage(depth, siblings, id) :
        depth \in 0..MaxPathDepth, siblings \in 1..MaxSiblings, id \in PathIds}

InitPath ==
    /\ document \in PathDocuments
    /\ selectedElement = 0
    /\ info = NoInfo
    /\ scoreInput = NoScoreInput
    /\ scoreOutput = NoScoreOutput
    /\ inspector = NoInspector
    /\ call = NoCall

SpecPath == InitPath /\ [][Next]_vars

(***************************************************************************)
(* The inspector's life cycle: toggle, the listeners on the document, and  *)
(* the detail panel, whose container is attached when the fetch of         *)
(* panel.html completes.  `this` is the inspector record.                  *)
(***************************************************************************)
MaxToggles == 4

MaxPanels == 3

\* document.addEventListener(type, this.handler.bind(this)): bind makes a
\* new function, which is registered
addEventListener(this, type) ==
    [this EXCEPT !.bound = @ + 1,
                 !.listeners = @ \cup {[type |-> type, fn |-> this.bound + 1]}]

\* document.removeEventListener(type, this.handler.bind(this)): bind makes a
\* new function, and the listener that is this function is removed
removeEventListener(this, type) ==
    [this EXCEPT !.bound = @ + 1,
                 !.listeners = @ \ {[type |-> type, fn |-> this.bound + 1]}]

createTooltip(this) == [this EXCEPT !.tooltip = TRUE]

removeTooltip(this) == [this EXCEPT !.tooltip = FALSE]

removeHighlight(this) == [this EXCEPT !.lastHighlighted = 0]

closePanel(this) ==
    IF this.panel # 0
    THEN [this EXCEPT !.attached = @ \ {this.panel}, !.panel = 0]
    ELSE this

activate(this) ==
    addEventListener(
        addEventListener(
            addEventListener(
                addEventListener(createTooltip(this), "mouseover"),
                "mouseout"),
            "keydown"),
        "click")

deactivate(this) ==
    closePanel(
        removeEventListener(
            removeEventListener(
                removeEventListener(
                    removeEventListener(removeHighlight(removeTooltip(this)), "mouseover"),
                    "mouseout"),
                "keydown"),
            "click"))

toggle(this) ==
    IF ~this.enabled
    THEN activate([this EXCEPT !.enabled = TRUE])
    ELSE deactivate([this EXCEPT !.enabled = FALSE])

\* openPanel up to the fetch: this.panel.remove() leaves this.panel set; the
\* new container waits for panel.html
openPanel(this) ==
    [this EXCEPT !.attached = IF this.panel # 0 THEN @ \ {this.panel} ELSE @,
                 !.created = @ + 1,
                 !.pending = @ \cup {this.created + 1}]

\* the then-callback of openPanel for the container
panelLoaded(this, container) ==
    [this EXCEPT !.pending = @ \ {container},
                 !.attached = @ \cup {container},
                 !.panel = container]

\* onKeyDown for Alt+X
onKeyDown(this) == IF ~this.enabled THEN this ELSE openPanel(this)

\* the listeners of a type registered on the document
listenersOf(this, type) == {l \in this.listeners : l.type = type}

RECURSIVE invokeKeyDown(_, _)
\* the dispatch of a keydown event: onKeyDown once per registered listener
invokeKeyDown(this, times) ==
    IF times = 0 THEN this ELSE invokeKeyDown(onKeyDown(this), times - 1)

dispatched(this, type) ==
    [this EXCEPT !.event = type, !.handled = Cardinality(listenersOf(this, type))]

InitInspector ==
    /\ document = LoginPage
    /\ selectedElement = 0
    /\ info = NoInfo
    /\ scoreInput = NoScoreInput
    /\ scoreOutput = NoScoreOutput
    /\ inspector = NoInspector
    /\ call = NoCall

\* the popup's toggle message
Toggle ==
    /\ inspector.toggles < MaxToggles
    /\ inspector' = [toggle(inspector) EXCEPT !.toggles = @ + 1]
    /\ UNCHANGED <<document, selectedElement, info, scoreInput, scoreOutput, call>>

\* the pointer enters an element of the page: onMouseOver runs once per
\* registered listener, and returns at once unless the inspector is enabled
MouseOver(element) ==
    /\ inspector' =
          IF inspector.enabled /\ listenersOf(inspector, "mouseover") # {}
          THEN [dispatched(inspector, "mouseover") EXCEPT !.lastHighlighted = element]
          ELSE dispatched(inspector, "mouseover")
    /\ IF inspector.enabled /\ listenersOf(inspector, "mouseover") # {}
       THEN /\ selectedElement' = element
            /\ info' = buildLocatorInfo(document, element)
       ELSE UNCHANGED <<selectedElement, info>>
    /\ UNCHANGED <<document, scoreInput, scoreOutput, call>>

\* Alt+X is pressed: onKeyDown runs once per registered listener
KeyDownAltX ==
    /\ inspector.created + Cardinality(listenersOf(inspector, "keydown")) <= MaxPanels
    /\ inspector' = invokeKeyDown(dispatched(inspector, "keydown"),
                                  Cardinality(listenersOf(inspector, "keydown")))
    /\ UNCHANGED <<document, selectedElement, info, scoreInput, scoreOutput, call>>

\* the fetch of panel.html for a container completes
PanelLoaded(container) ==
    /\ container \in inspector.pending
    /\ inspector' = panelLoaded(inspector, container)
    /\ UNCHANGED <<document, selectedElement, info, scoreInput, scoreOutput, call>>

\* the fetch of panel.html for a container fails: the catch logs the error
PanelFailed(container) ==
    /\ container \in inspector.pending
    /\ inspector' = [inspector EXCEPT !.pending = @ \ {container}]
    /\ UNCHANGED <<document, selectedElement, info, scoreInput, scoreOutput, call>>

\* the closePanel message, or a click on the panel's close button
ClosePanel ==
    /\ inspector' = closePanel(inspector)
    /\ UNCHANGED <<document, selectedElement, info, scoreInput, scoreOutput, call>>

NextInspector ==
    \/ Toggle
    \/ \E element \in Nodes(document) : MouseOver(element)
    \/ KeyDownAltX
    \/ \E container \in 1..MaxPanels : PanelLoaded(container)
    \/ \E container \in 1..MaxPanels : PanelFailed(container)
    \/ ClosePanel

SpecInspector == InitInspector /\ [][NextInspector]_vars

(***************************************************************************)
(* Properties of the element report                                        *)
(***************************************************************************)
\* the kinds of a list of locators, in order
kindsOf(list) == [k \in 1..Len(list) |-> list[k].type]

\* the positions of the entries of a kind
positionsOf(list, kind) == {k \in 1..Len(list) : list[k].type = kind}

\* a ranked entry without the two fields rankLocators adds
generatedPart(l) ==
    [type |-> l.type, value |-> l.value, reason |-> l.reason, queryType |-> l.queryType,
     accessibleName |-> l.accessibleName]

\* buildLocatorInfo has been called on an element
Called == info.element # 0

\* ... and has returned a report
Reported == info.element # 0 /\ ~info.threw

\* a well-formed list: not empty, one xpath candidate, which is the last
xpathLast(list) ==
    /\ list # <<>>
    /\ Cardinality(positionsOf(list, "xpath")) = 1
    /\ list[Len(list)].type = "xpath"

\* C1: for every element generateLocators returns a non-empty list in which
\* the xpath candidate occurs exactly once and is the last entry, so that the
\* locators of buildLocatorInfo's report are never empty and always contain
\* an xpath candidate.
C1_XPathFallbackForEveryElement ==
    Called =>
        /\ ~info.threw
        /\ xpathLast(info.generated)
        /\ info.locators # <<>>
        /\ positionsOf(info.locators, "xpath") # {}

\* C1, for the calls that return: the list is well formed whenever
\* generateLocators returns one.
C1_XPathFallbackWhenReturned ==
    Reported =>
        /\ xpathLast(info.generated)
        /\ info.locators # <<>>
        /\ positionsOf(info.locators, "xpath") # {}

\* C2: every candidate rankLocators returns carries an integer score between
\* 0 and 100, whatever its kind, match count, dynamic flag, expression length
\* and visibility.
C2_ScoreWithinRange ==
    scoreOutput.called => scoreOutput.score \in 0..100

\* an xpath candidate whose penalties take the sum below zero
C2_Witness ==
    /\ scoreOutput.called
    /\ scoreInput.type = "xpath"
    /\ scoreInput.matchCount > 5
    /\ scoreInput.dynamic
    /\ scoreInput.length > 150
    /\ scoreOutput.score = 0

\* the number of entries of a list equal to x
occurrences(list, x) == Cardinality({k \in 1..Len(list) : list[k] = x})

\* the position in the generated list of a ranked entry
generationIndex(l) ==
    CHOOSE g \in 1..Len(info.generated) : info.generated[g] = generatedPart(l)

\* C3: rankLocators returns a permutation of the generated candidates in
\* descending order of score, and of two candidates with the same score the
\* one generated earlier comes first.
C3_StableDescendingPermutation ==
    Reported =>
        /\ Len(info.locators) = Len(info.generated)
        /\ \A g \in 1..Len(info.generated) :
              occurrences([k \in 1..Len(info.locators) |-> generatedPart(info.locators[k])],
                          info.generated[g])
              = occurrences(info.generated, info.generated[g])
        /\ \A j, k \in 1..Len(info.locators) :
              j < k =>
                /\ info.locators[j].score >= info.locators[k].score
                /\ info.locators[j].score = info.locators[k].score
                      => generationIndex(info.locators[j]) < generationIndex(info.locators[k])

\* a report the sort has reordered and which holds two candidates of one score
C3_Witness ==
    /\ Reported
    /\ kindsOf(info.locators) # kindsOf(info.generated)
    /\ \E j, k \in 1..Len(info.locators) :
          j < k /\ info.locators[j].score = info.locators[k].score

\* the element is the only copy of e in the document and it is rendered
uniqueVisible(e) ==
    /\ Called
    /\ document[info.element] = e
    /\ Cardinality({n \in Nodes(document) : document[n] = e}) = 1
    /\ isElementVisible(document, info.element)

\* C4: for the visible, unique <button data-testid="login-btn"
\* aria-label="Sign in">Login</button> the role candidate (role="button",
\* accessible name "Sign in") comes before the test-id candidate
\* ([data-testid="login-btn"]) in the report's locators.
C4_RoleBeforeTestId ==
    uniqueVisible(LoginButton) =>
        /\ ~info.threw
        /\ \E r, t \in 1..Len(info.locators) :
              /\ info.locators[r].type = "role"
              /\ info.locators[r].value = <<"r", "o", "l", "e", "=", "\"", "b", "u", "t", "t", "o", "n", "\"">>
              /\ info.locators[r].accessibleName = <<"S", "i", "g", "n", " ", "i", "n">>
              /\ info.locators[t].type = "test-id"
              /\ info.locators[t].value = <<"[", "d", "a", "t", "a", "-", "t", "e", "s", "t", "i", "d", "=", "\"", "l", "o", "g", "i", "n", "-", "b", "t", "n", "\"", "]">>
              /\ r < t

\* C5: for <input placeholder="Username"> (no id, no label, no name, no other
\* attribute) the kinds generateLocators returns are exactly placeholder, css
\* and xpath.
C5_PlaceholderInputKinds ==
    (Called /\ document[info.element] = UsernameInput) =>
        /\ ~info.threw
        /\ {info.generated[k].type : k \in 1..Len(info.generated)}
              = {"placeholder", "css", "xpath"}

\* C5 as amended: the kinds are exactly role, placeholder, css and xpath, in
\* that order; the role candidate is role="textbox" with the placeholder as
\* its accessible name.
C5_PlaceholderInputKindsWithRole ==
    (Called /\ document[info.element] = UsernameInput) =>
        /\ ~info.threw
        /\ kindsOf(info.generated) = <<"role", "placeholder", "css", "xpath">>
        /\ info.generated[1].value = <<"r", "o", "l", "e", "=", "\"", "t", "e", "x", "t", "b", "o", "x", "\"">>
        /\ info.generated[1].accessibleName = <<"U", "s", "e", "r", "n", "a", "m", "e">>

C5_Witness ==
    /\ Reported
    /\ document[info.element] = UsernameInput
    /\ Len(info.generated) = 4

\* the score rankLocators reports for a css candidate that matches n elements
\* and is otherwise the candidate of scoreInput
cssScoreAt(n) ==
    MathRound(scoreOf("css", n, scoreInput.dynamic, scoreInput.visible, scoreInput.length))

\* C6: a css candidate whose expression matches exactly 2 elements scores
\* exactly 5 points lower than the otherwise identical candidate (same kind,
\* dynamic flag, length class and visibility) that matches exactly 1.
C6_SecondMatchCostsFive ==
    (scoreOutput.called /\ scoreInput.type = "css" /\ scoreInput.matchCount = 2)
        => scoreOutput.score = cssScoreAt(1) - 5

\* C6 as amended: it scores exactly 15 points lower (the bonus of 10 for a
\* unique match is lost and 5 are taken off for the second match).
C6_SecondMatchCostsFifteen ==
    (scoreOutput.called /\ scoreInput.type = "css" /\ scoreInput.matchCount = 2)
        => scoreOutput.score = cssScoreAt(1) - 15

C6_Witness ==
    /\ scoreOutput.called
    /\ scoreInput.type = "css"
    /\ scoreInput.matchCount = 2
    /\ scoreOutput.score = 70

JssId == <<"j", "s", "s", "4", "2">>

\* the ranked id candidates of a report on an element whose id is jss42
jssIdCandidates ==
    IF Reported /\ elementId(document, info.element) = JssId
    THEN {k \in 1..Len(info.locators) : info.locators[k].type = "id"}
    ELSE {}

\* the sum calculateScore would clamp for the id candidate of the element of
\* the report if the candidate were not flagged dynamic
unflaggedIdSum ==
    BaseScore + 55
    + uniquenessTerm(Cardinality({n \in Nodes(document) : elementId(document, n) = JssId}))
    + (IF isElementVisible(document, info.element) THEN 5 ELSE 0)
    + lengthTerm(Len(JssId) + 1)

\* C7: for an element with id "jss42" the id candidate "#jss42" is flagged
\* dynamic by hasDynamicParts and its final reported score is exactly 30
\* lower than the final score the same candidate would receive if it were not
\* flagged, all other score terms being equal.
C7_DynamicIdThirtyLower ==
    \A k \in jssIdCandidates :
        /\ info.locators[k].value = <<"#">> \o JssId
        /\ hasDynamicParts(info.locators[k].value)
        /\ info.locators[k].score = MathRound(clampScore(unflaggedIdSum)) - 30

\* C7 as amended: the candidate is flagged dynamic and 30 is subtracted
\* before the clamp: its final score is the clamp to 0..100 of the unclamped
\* sum it would have if not flagged, less 30.
C7_DynamicIdThirtyOffBeforeClamp ==
    \A k \in jssIdCandidates :
        /\ info.locators[k].value = <<"#">> \o JssId
        /\ hasDynamicParts(info.locators[k].value)
        /\ info.locators[k].score = MathRound(clampScore(unflaggedIdSum - 30))

\* the id candidate of a unique, visible element with id jss42: 95, where
\* the unflagged candidate would have had 100
C7_Witness ==
    /\ jssIdCandidates # {}
    /\ unflaggedIdSum > 100
    /\ \E k \in jssIdCandidates : info.locators[k].score = 95

\* the table of type weights
Weights ==
    [kind \in KindSet |->
        IF kind = "role" THEN 90 ELSE IF kind = "test-id" THEN 85
        ELSE IF kind = "aria-label" THEN 80 ELSE IF kind = "role-attr" THEN 70
        ELSE IF kind = "name" THEN 60 ELSE IF kind = "id" THEN 55
        ELSE IF kind = "placeholder" THEN 50 ELSE IF kind = "label" THEN 45
        ELSE IF kind = "alt" THEN 40 ELSE IF kind = "title" THEN 35
        ELSE IF kind = "text" THEN 20 ELSE IF kind = "css" THEN 15 ELSE 10]

\* the sum of the terms of the score for the scoring input i
SumOfTerms(i) ==
    50 + Weights[i.type]
    + (CASE i.matchCount = 1 -> 10
         [] i.matchCount > 1 -> (0 - 5) * (i.matchCount - 1)
         [] i.matchCount = 0 -> 0 - 20)
    - (IF i.dynamic THEN 30 ELSE 0)
    + (IF i.visible THEN 5 ELSE 0)
    + (CASE i.length < 30 -> 5
         [] i.length > 150 -> 0 - 10
         [] OTHER -> 0)

\* C8: calculateScore is the clamp to [0,100] of 50 + the type weight + the
\* uniqueness term (10 for one match, -5 for each match beyond the first,
\* -20 for none) - 30 if the expression is dynamic + 5 if the element is
\* visible + the length term (5 below 30 characters, -10 above 150).
C8_ScoreClosedForm ==
    scoreOutput.called =>
        scoreOutput.score =
            (IF SumOfTerms(scoreInput) < 0 THEN 0
             ELSE IF SumOfTerms(scoreInput) > 100 THEN 100
             ELSE SumOfTerms(scoreInput))

\* a text candidate whose score no clamp touches
C8_Witness ==
    /\ scoreOutput.called
    /\ scoreInput.type = "text"
    /\ scoreInput.matchCount = 3
    /\ scoreOutput.score = 65

\* C9: the stability label is determined by the reported score alone:
\* Excellent iff score >= 80, Good iff 60 <= score < 80, Fair iff
\* 40 <= score < 60, Poor iff score < 40.
C9_StabilityThresholds ==
    scoreOutput.called =>
        /\ scoreOutput.stability = "Excellent" <=> scoreOutput.score >= 80
        /\ scoreOutput.stability = "Good"
              <=> (60 <= scoreOutput.score /\ scoreOutput.score < 80)
        /\ scoreOutput.stability = "Fair"
              <=> (40 <= scoreOutput.score /\ scoreOutput.score < 60)
        /\ scoreOutput.stability = "Poor" <=> scoreOutput.score < 40

\* a candidate exactly on a threshold
C9_Witness ==
    /\ scoreOutput.called
    /\ scoreOutput.score \in {80, 60, 40}
    /\ scoreOutput.stability \in {"Excellent", "Good", "Fair"}

\* the first node of a set in document order
firstOfNodes(ns) == CHOOSE a \in ns : \A b \in ns : a <= b

\* the trimmed text of the first node of a set ("" for the empty set)
trimmedTextOfFirst(doc, ns) ==
    IF ns = {} THEN <<>> ELSE trim(textContent(doc, firstOfNodes(ns)))

\* the elements with the id an aria-labelledby attribute names
labelledBy(doc, el) ==
    {n \in Nodes(doc) :
        /\ Truthy(getAttribute(doc, el, "aria-labelledby"))
        /\ getAttribute(doc, n, "id") = getAttribute(doc, el, "aria-labelledby")}

\* the label elements whose for attribute is the id of the element
labelsFor(doc, el) ==
    {n \in Nodes(doc) :
        /\ doc[n].tagName = T_LABEL
        /\ Truthy(getAttribute(doc, el, "id"))
        /\ getAttribute(doc, n, "for") = getAttribute(doc, el, "id")}

\* the sources of the accessible name in their order of precedence, each
\* with whether it is available for the element
nameSources(doc, el) ==
    <<[available |-> Truthy(getAttribute(doc, el, "aria-label")),
       value |-> getAttribute(doc, el, "aria-label")],
      [available |-> labelledBy(doc, el) # {},
       value |-> trimmedTextOfFirst(doc, labelledBy(doc, el))],
      [available |-> doc[el].tagName = T_BUTTON /\ trim(textContent(doc, el)) # <<>>,
       value |-> trim(textContent(doc, el))],
      [available |-> doc[el].tagName = T_INPUT /\ labelsFor(doc, el) # {},
       value |-> trimmedTextOfFirst(doc, labelsFor(doc, el))],
      [available |-> doc[el].tagName = T_INPUT /\ Truthy(getAttribute(doc, el, "placeholder")),
       value |-> getAttribute(doc, el, "placeholder")],
      [available |-> doc[el].tagName = T_A /\ trim(textContent(doc, el)) # <<>>,
       value |-> trim(textContent(doc, el))],
      [available |-> doc[el].tagName = T_IMG /\ Truthy(getAttribute(doc, el, "alt")),
       value |-> getAttribute(doc, el, "alt")]>>

\* the value of the first available source, null when none is
firstAvailable(sources) ==
    IF \A k \in 1..Len(sources) : ~sources[k].available THEN Null
    ELSE sources[CHOOSE k \in 1..Len(sources) :
                    /\ sources[k].available
                    /\ \A j \in 1..(k - 1) : ~sources[j].available].value

\* C10: getAccessibleName returns the first available value in this order,
\* nothing later overriding an earlier one: the non-empty aria-label; the
\* trimmed text of the element aria-labelledby refers to, when the id
\* resolves; for BUTTON its trimmed text; for INPUT the trimmed text of
\* label[for=id], else the placeholder; for A its trimmed text; for IMG its
\* alt; otherwise null.  An element with aria-label "Save" and the text
\* "Click me" resolves to "Save".
C10_NamePrecedence ==
    Called =>
        /\ ~info.name.threw
        /\ info.name.name = firstAvailable(nameSources(document, info.element))
        /\ document[info.element] = SaveButton => info.name.name = <<"S", "a", "v", "e">>

\* C10, for the calls that return: the value is the first available one.
C10_NamePrecedenceWhenReturned ==
    (Called /\ ~info.name.threw) =>
        /\ info.name.name = firstAvailable(nameSources(document, info.element))
        /\ document[info.element] = SaveButton => info.name.name = <<"S", "a", "v", "e">>

\* the implicit role of a tag, "" for a tag without one
implicitRoleOfTag ==
    [t \in {T_BUTTON, T_A, T_INPUT, T_TEXTAREA, T_SELECT, T_NAV, T_MAIN, T_FORM}
            \cup HeadingTags |->
        IF t = T_BUTTON THEN <<"b", "u", "t", "t", "o", "n">> ELSE IF t = T_A THEN <<"l", "i", "n", "k">>
        ELSE IF t \in {T_INPUT, T_TEXTAREA} THEN <<"t", "e", "x", "t", "b", "o", "x">>
        ELSE IF t = T_SELECT THEN <<"c", "o", "m", "b", "o", "b", "o", "x">> ELSE IF t = T_NAV THEN <<"n", "a", "v", "i", "g", "a", "t", "i", "o", "n">>
        ELSE IF t = T_MAIN THEN <<"m", "a", "i", "n">> ELSE IF t = T_FORM THEN <<"f", "o", "r", "m">>
        ELSE <<"h", "e", "a", "d", "i", "n", "g">>]

\* the implicit role an input takes from its type
implicitRoleOfType ==
    [ty \in {<<"c", "h", "e", "c", "k", "b", "o", "x">>, <<"r", "a", "d", "i", "o">>, <<"s", "u", "b", "m", "i", "t">>, <<"b", "u", "t", "t", "o", "n">>} |->
        IF ty = <<"c", "h", "e", "c", "k", "b", "o", "x">> THEN <<"c", "h", "e", "c", "k", "b", "o", "x">> ELSE IF ty = <<"r", "a", "d", "i", "o">> THEN <<"r", "a", "d", "i", "o">>
        ELSE <<"b", "u", "t", "t", "o", "n">>]

\* the role of an element: its non-empty role attribute, otherwise the
\* implicit role of the tag/type table, "" when it has none
roleOfElement(doc, el) ==
    IF Truthy(getAttribute(doc, el, "role")) THEN getAttribute(doc, el, "role")
    ELSE IF doc[el].tagName = T_INPUT
            /\ getAttribute(doc, el, "type") \in DOMAIN implicitRoleOfType
    THEN implicitRoleOfType[getAttribute(doc, el, "type")]
    ELSE IF doc[el].tagName \in DOMAIN implicitRoleOfTag
    THEN implicitRoleOfTag[doc[el].tagName]
    ELSE <<>>

\* the element has a role and a non-empty accessible name
hasRoleAndName(doc, el) ==
    /\ roleOfElement(doc, el) # <<>>
    /\ Truthy(firstAvailable(nameSources(doc, el)))

\* the role candidate the element is to get
expectedRoleCandidate(doc, el) ==
    Locator("role", <<"r", "o", "l", "e", "=", "\"">> \o roleOfElement(doc, el) \o <<"\"">>,
            "ARIA role with accessible name", "css",
            firstAvailable(nameSources(doc, el)))

\* the role candidates of a list
roleCandidates(list) == {list[k] : k \in positionsOf(list, "role")}

\* C11: generateLocators emits a role candidate if and only if the element
\* has a role (its non-empty role attribute, otherwise the implicit role of
\* the tag/type table) and a non-empty accessible name; the expression is
\* role="<that role>" and the accessible name is carried in accessibleName.
C11_RoleCandidateIff ==
    Called =>
        roleCandidates(info.generated) =
            IF hasRoleAndName(document, info.element)
            THEN {expectedRoleCandidate(document, info.element)}
            ELSE {}

\* C11, for the calls that return a list.
C11_RoleCandidateIffWhenReturned ==
    Reported =>
        roleCandidates(info.generated) =
            IF hasRoleAndName(document, info.element)
            THEN {expectedRoleCandidate(document, info.element)}
            ELSE {}

\* a getMatchCount call has returned
matchCounted == call.method = "getMatchCount" /\ call.returned

\* the expressions of the lists above that no query can execute
FailingCss == {<<"d", "i", "v", "[">>, <<"r", "o", "l", "e", "=", "\"", "b", "u", "t", "t", "o", "n", "\"">>, <<"b", "u", "t", "t", "o", "n", " ", ">", " ">>, <<":", "b", "a", "d">>, <<>>}

FailingXPath == {<<"/", "h", "t", "m", "l", "[">>, <<"/", "/", "*", "[", "@", "i", "d", "=", "\"", "m", "e", "n", "u", "\"">>, <<>>}

FailingPlaywright == {<<"t", "e", "x", "t", "=", "\"", "M", "e", "n", "u", "\"">>, <<"s", "p", "a", "n", ":", "h", "a", "s", "-", "t", "e", "x", "t", "(", "\"", "x", "\"", ")">>, <<"d", "i", "v", " ", ">", ">", " ", "t", "e", "x", "t", "=", "\"", "x", "\"">>}

\* C12: getMatchCount returns a non-negative integer for every candidate and
\* raises nothing: when the query cannot be executed it returns 0 for the
\* css and xpath dialects and 1 for the playwright dialect, and for the
\* playwright dialect the result is always at least 1.
C12_MatchCountFallbacks ==
    matchCounted =>
        /\ call.result \in Nat
        /\ (call.argument.queryType = "css" /\ call.argument.value \in FailingCss)
              => call.result = 0
        /\ (call.argument.queryType = "css"
              /\ ~querySelectorAll(document, call.argument.value).ok) => call.result = 0
        /\ (call.argument.queryType = "xpath" /\ call.argument.value \in FailingXPath)
              => call.result = 0
        /\ (call.argument.queryType = "xpath"
              /\ ~evaluateXPath(document, call.argument.value).ok) => call.result = 0
        /\ call.argument.queryType = "playwright" => call.result >= 1
        /\ (call.argument.queryType = "playwright"
              /\ call.argument.value \in FailingPlaywright) => call.result = 1

\* a text query whose structural remainder cannot be executed
C12_Witness ==
    /\ matchCounted
    /\ call.argument.queryType = "playwright"
    /\ call.argument.value = <<"d", "i", "v", " ", ">", ">", " ", "t", "e", "x", "t", "=", "\"", "x", "\"">>
    /\ call.result = 1

\* C13: for every well-formed element, those whose id or other attribute
\* values hold a double quote, a backslash or a colon included,
\* buildLocatorInfo returns a report and raises nothing: the failures of the
\* document queries of candidate generation and name resolution are absorbed.
C13_ReportForEveryElement ==
    Called => (~info.threw /\ ~info.name.threw /\ info.locators # <<>>)

\* a converter call has returned
converted == call.method \in {"convertToPlaywright", "convertToSelenium"} /\ call.returned

\* C14: each of the 13 kinds is handled by its own explicit case in both
\* convertToPlaywright and convertToSelenium; no generated kind falls
\* through to the default branch of either.
C14_EveryKindHasItsCase ==
    (converted /\ call.argument.type \in KindSet) => call.result.case = call.argument.type

\* the kinds without a case of their own in each converter
KindsLeftToDefault ==
    [m \in {"convertToPlaywright", "convertToSelenium"} |->
        IF m = "convertToPlaywright" THEN {"title"} ELSE {"title", "role-attr"}]

\* the code of the default branch of each converter
defaultCode(m, value) ==
    IF m = "convertToPlaywright" THEN <<"p", "a", "g", "e", ".", "l", "o", "c", "a", "t", "o", "r", "(", "'">> \o value \o <<"'", ")">>
    ELSE <<"d", "r", "i", "v", "e", "r", ".", "f", "i", "n", "d", "_", "e", "l", "e", "m", "e", "n", "t", "(", "B", "y", ".", "C", "S", "S", "_", "S", "E", "L", "E", "C", "T", "O", "R", ",", " ", "'">> \o value \o <<"'", ")">>

\* C14 as amended: convertToPlaywright has a case of its own for every kind
\* but title, convertToSelenium for every kind but title and role-attr;
\* these fall through to the default branch, which wraps the expression in
\* the generic locator call of the framework.
C14_KindsWithTheirCase ==
    (converted /\ call.argument.type \in KindSet) =>
        IF call.argument.type \in KindsLeftToDefault[call.method]
        THEN /\ call.result.case = "default"
             /\ call.result.code = defaultCode(call.method, call.argument.value)
        ELSE call.result.case = call.argument.type

\* a generated role-attr candidate converted for Selenium by the default branch
C14_Witness ==
    /\ converted
    /\ call.method = "convertToSelenium"
    /\ call.argument.type = "role-attr"
    /\ call.argument.value = <<"[", "r", "o", "l", "e", "=", "\"", "s", "e", "a", "r", "c", "h", "b", "o", "x", "\"", "]">>
    /\ call.result = Converted("default",
            <<"d", "r", "i", "v", "e", "r", ".", "f", "i", "n", "d", "_", "e", "l", "e", "m", "e", "n", "t", "(", "B", "y", ".", "C", "S", "S", "_", "S", "E", "L", "E", "C", "T", "O", "R", ",", " ", "'", "[", "r", "o", "l", "e", "=", "\"", "s", "e", "a", "r", "c", "h", "b", "o", "x", "\"", "]", "'", ")">>)

\* the test identifier attributes the element carries with a value
presentTestIds(doc, el) ==
    {k \in 1..Len(TestIdAttributes) : Truthy(getAttribute(doc, el, TestIdAttributes[k]))}

\* the value of the first of them
firstTestId(doc, el) ==
    getAttribute(doc, el, TestIdAttributes[firstPosition(presentTestIds(doc, el))])

\* the element carries a test identifier attribute
hasTestId == Called /\ presentTestIds(document, info.element) # {}

\* C15: whenever an element carries at least one of data-testid,
\* data-test-id, data-test, data-qa, data-cy, the test-id candidate is built
\* from the first present attribute in that order and its expression,
\* executed against the document, selects the target element (match count
\* >= 1), whichever of the five attributes supplied the value.
C15_TestIdSelectsTarget ==
    hasTestId =>
        /\ ~info.threw
        /\ \E k \in positionsOf(info.generated, "test-id") :
              /\ capture(info.generated[k].value, <<"=", "\"">>, <<"\"">>)
                    = firstTestId(document, info.element)
              /\ querySelectorAll(document, info.generated[k].value).ok
              /\ info.element \in querySelectorAll(document, info.generated[k].value).nodes
              /\ getMatchCount(document, info.generated[k]) >= 1

\* C15, what the code does: the expression always names data-testid, so it
\* selects the target exactly when data-testid itself supplied the value.
C15_TestIdNamesDataTestid ==
    hasTestId =>
        /\ ~info.threw
        /\ \E k \in positionsOf(info.generated, "test-id") :
              /\ info.generated[k].value
                    = <<"[", "d", "a", "t", "a", "-", "t", "e", "s", "t", "i", "d", "=", "\"">> \o firstTestId(document, info.element) \o <<"\"", "]">>
              /\ info.element \in querySelectorAll(document, info.generated[k].value).nodes
                    <=> Truthy(getAttribute(document, info.element, "data-testid"))

\* the trimmed, whitespace-collapsed text content of the element
collapsedText(doc, el) == collapseSpaces(trim(textContent(doc, el)))

\* C16: generateLocators emits a text candidate if and only if the trimmed,
\* whitespace-collapsed text content of the element is non-empty and at most
\* 100 characters long; a text of exactly 100 characters yields a candidate.
C16_TextUpToHundred ==
    Reported =>
        (positionsOf(info.generated, "text") # {}
            <=> (/\ collapsedText(document, info.element) # <<>>
                 /\ Len(collapsedText(document, info.element)) <= 100))

\* C16, what the code does: the candidate is emitted for texts of fewer than
\* 100 characters only.
C16_TextBelowHundred ==
    Reported =>
        /\ positionsOf(info.generated, "text") # {}
              <=> (/\ collapsedText(document, info.element) # <<>>
                   /\ Len(collapsedText(document, info.element)) < 100)
        /\ \A k \in positionsOf(info.generated, "text") :
              info.generated[k].value
                  = <<"t", "e", "x", "t", "=", "\"">> \o collapsedText(document, info.element) \o <<"\"">>

\* C17: an alt candidate is generated only when the target is an img element
\* with a non-empty alt attribute; an element of another tag that carries an
\* alt attribute gets no alt candidate.
C17_AltOnlyForImages ==
    Reported =>
        (positionsOf(info.generated, "alt") # {}
            => (/\ document[info.element].tagName = T_IMG
                /\ Truthy(getAttribute(document, info.element, "alt"))))

\* C17, what the code does: the candidate img[alt="X"] is emitted for every
\* element with a non-empty alt attribute, whatever its tag.
C17_AltForEveryTag ==
    Reported =>
        /\ positionsOf(info.generated, "alt") # {}
              <=> Truthy(getAttribute(document, info.element, "alt"))
        /\ \A k \in positionsOf(info.generated, "alt") :
              info.generated[k].value
                  = <<"i", "m", "g", "[", "a", "l", "t", "=", "\"">> \o getAttribute(document, info.element, "alt") \o <<"\"", "]">>

\* the serialized nodes of a tree: the root and everything below it
RECURSIVE serializedNodes(_)
serializedNodes(tree) ==
    {tree} \cup (IF "children" \in DOMAIN tree
                 THEN UNION {serializedNodes(tree.children[k]) : k \in 1..Len(tree.children)}
                 ELSE {})

\* C18: in the tree getFullDOMTree returns, the children of every serialized
\* element are element nodes and text nodes only; comments, processing
\* instructions and the other kinds of node are left out.
C18_ChildrenAreElementsOrText ==
    (call.method = "getFullDOMTree" /\ call.returned) =>
        \A node \in serializedNodes(call.result) :
            "children" \in DOMAIN node =>
                \A k \in 1..Len(node.children) :
                    node.children[k].nodeType \in {ELEMENT_NODE, TEXT_NODE}

RECURSIVE mirrors(_, _, _, _)
\* the tree lists, down to the depth it follows, every child node of every
\* type, in document order, with its name and type
mirrors(doc, node, tree, depth) ==
    /\ tree.nodeName = doc[node].nodeName
    /\ tree.nodeType = doc[node].nodeType
    /\ ("children" \in DOMAIN tree) = (doc[node].nodeType = ELEMENT_NODE)
    /\ "children" \in DOMAIN tree =>
          /\ Len(tree.children) = (IF depth < MaxTreeDepth THEN Len(childNodes(doc, node)) ELSE 0)
          /\ \A k \in 1..Len(tree.children) :
                mirrors(doc, childNodes(doc, node)[k], tree.children[k], depth + 1)

\* C18, what the code does: a child node of any type gets an entry, which
\* for a comment or a processing instruction holds its name and type only.
C18_ChildrenOfEveryType ==
    (call.method = "getFullDOMTree" /\ call.returned) =>
        mirrors(document, documentElement, call.result, 0)

\* the tags the specification counts as semantically meaningful, as the tree
\* spells them
SemanticTags ==
    {<<"h", "1">>, <<"h", "2">>, <<"h", "3">>, <<"h", "4">>, <<"h", "5">>, <<"h", "6">>, <<"b", "u", "t", "t", "o", "n">>, <<"a">>, <<"f", "o", "r", "m">>,
     <<"i", "n", "p", "u", "t">>, <<"s", "e", "l", "e", "c", "t">>, <<"t", "e", "x", "t", "a", "r", "e", "a">>}

\* an entry of ariaNodes carries an ARIA attribute, an identifier or a text
meaningfulByContent(ariaNode) ==
    \/ \E key \in {"role", "aria-label", "aria-expanded", "aria-pressed"} : key \in DOMAIN ariaNode
    \/ \E key \in {"id", "name", "dataTestId"} : key \in DOMAIN ariaNode
    \/ ariaNode["textContent"] # <<>>

AriaReturned == call.method = "getFullARIATree" /\ call.returned

\* C19: getFullARIATree includes an element only if it carries role,
\* aria-label, aria-expanded or aria-pressed, or its tag is one of h1-h6,
\* button, a, form, input, select, textarea, or it has an id, a name or a
\* data-testid, or its trimmed text is not empty; an empty <span> without
\* attributes is not in ariaNodes.
C19_IncludedOnlyIfMeaningful ==
    AriaReturned =>
        \A k \in 1..Len(call.result.ariaNodes) :
            \/ meaningfulByContent(call.result.ariaNodes[k])
            \/ call.result.ariaNodes[k]["tag"] \in SemanticTags

\* the visible elements below body that are no script, style or noscript
ariaCandidates(doc) ==
    {n \in Nodes(doc) :
        /\ n > body
        /\ doc[n].tagName \notin {T_SCRIPT, T_STYLE, T_NOSCRIPT}
        /\ doc[n].display # "none"
        /\ doc[n].visibility # "hidden"}

\* the element has a non-empty value of one of the attributes
hasValue(doc, n, attributes) ==
    \E a \in attributes : a \in DOMAIN doc[n].attrs /\ doc[n].attrs[a] # <<>>

\* the tag name holds one of the words of the pattern, or is a heading
tagHoldsWord(tagName) ==
    \/ toLowerCase(tagName) \in SemanticTags
    \/ \E i \in 1..Len(tagName), word \in SemanticTags :
          OccursAt(toLowerCase(tagName), i, word) /\ Len(word) # 2

\* C19, what the code does: the tag test accepts every tag name that holds
\* one of the words BUTTON, A, FORM, INPUT, SELECT, TEXTAREA anywhere, so that
\* an empty <span>, <nav> or <label> without attributes is included.
C19_IncludedIffMeaningfulOrTagHoldsWord ==
    AriaReturned =>
        /\ call.result.totalAriaNodes = Len(call.result.ariaNodes)
        /\ call.result.totalAriaNodes
              = Cardinality({n \in ariaCandidates(document) :
                    \/ hasValue(document, n, {"role", "aria-label", "aria-expanded", "aria-pressed"})
                    \/ hasValue(document, n, {"id", "name", "data-testid"})
                    \/ trim(textContent(document, n)) # <<>>
                    \/ tagHoldsWord(document[n].tagName)})
        /\ \A k \in 1..Len(call.result.ariaNodes) :
              \/ meaningfulByContent(call.result.ariaNodes[k])
              \/ tagHoldsWord(call.result.ariaNodes[k]["tag"])

\* every character of the string from position a to position b is in the set
allBetween(s, a, b, chars) == \A k \in a..b : s[k] \in chars

\* the string holds a run of n characters of the set
holdsRun(s, n, chars) ==
    \E a \in 1..(Len(s) - n + 1) : allBetween(s, a, a + n - 1, chars)

\* the string holds the character followed by n characters of the set
holdsAfter(s, c, n, chars) ==
    \E a \in 1..(Len(s) - n) : s[a] = c /\ allBetween(s, a + 1, a + n, chars)

\* the 36 characters from position a are a UUID: 8-4-4-4-12 hex digits
uuidAt(s, a) ==
    \A k \in 0..35 :
        IF k \in {8, 13, 18, 23} THEN s[a + k] = "-" ELSE s[a + k] \in HexDigits

\* letters, digits, letters, digits from position a: the four runs start at
\* a, b, c and d
mixedAt(s, a) ==
    \E b \in (a + 1)..Len(s), c \in (a + 2)..Len(s), d \in (a + 3)..Len(s) :
        /\ b < c /\ c < d
        /\ allBetween(s, a, b - 1, Letters)
        /\ allBetween(s, b, c - 1, Digits)
        /\ allBetween(s, c, d - 1, Letters)
        /\ s[d] \in Digits

\* the six patterns of the specification, letters in either case
SixPatterns(s) ==
    \/ holdsRun(s, 4, Digits)
    \/ \E a \in 1..(Len(s) - 35) : uuidAt(s, a)
    \/ holdsAfter(s, "#", 6, HexDigits)
    \/ \E a \in 1..(Len(s) - 3) : toLowerCase(SubSeq(s, a, a + 2)) = <<"j", "s", "s">> /\ s[a + 3] \in Digits
    \/ \E a \in 1..Len(s) : mixedAt(s, a)
    \/ holdsAfter(s, ":", 1, Digits)

\* C20: hasDynamicParts returns the same value whenever it is passed the same
\* string, whatever was passed before, and returns true exactly when the
\* string holds 4 or more consecutive digits, a UUID, '#' and 6 hex digits,
\* 'jss' and digits, letters-digits-letters-digits, or ':' and digits; it is
\* true for 550e8400-e29b-41d4-a716-446655440000 and jss42, false for
\* submit-button and for the empty string.
C20_DynamicExactlySixPatterns ==
    call.method = "hasDynamicParts" =>
        /\ \A i, j \in 1..Len(call.argument) :
              call.argument[i] = call.argument[j] => call.result[i] = call.result[j]
        /\ \A k \in 1..Len(call.argument) :
              /\ call.result[k] = SixPatterns(call.argument[k])
              /\ call.argument[k] \in {Uuid, <<"j", "s", "s", "4", "2">>} => call.result[k]
              /\ call.argument[k] \in {<<"s", "u", "b", "m", "i", "t", "-", "b", "u", "t", "t", "o", "n">>, <<>>} => ~call.result[k]

\* :80 was flagged after the UUID was, or jss42 was flagged twice
C20_Witness ==
    /\ call.method = "hasDynamicParts"
    /\ \/ call.argument = <<Uuid, <<":", "8", "0">>>> /\ call.result = <<TRUE, TRUE>>
       \/ call.argument = <<<<"j", "s", "s", "4", "2">>, <<"j", "s", "s", "4", "2">>>> /\ call.result = <<TRUE, TRUE>>

\* the value of the only candidate of a kind in the generated list
valueOf(list, kind) == list[CHOOSE k \in positionsOf(list, kind) : TRUE].value

hasColonId == Reported /\ includes(elementId(document, info.element), ":")

\* C21: for an element whose id holds a colon generateCssSelector does not
\* return "#<id>"; the css candidate is built by the ancestor walk, so it
\* begins with the tag name of one of the walked elements.
C21_ColonIdWalksAncestors ==
    hasColonId =>
        /\ positionsOf(info.generated, "css") # {}
        /\ valueOf(info.generated, "css") # <<"#">> \o elementId(document, info.element)
        /\ valueOf(info.generated, "css")[1] # "#"

\* C21, what the code does: the colon is tested for the id candidate only;
\* generateCssSelector returns "#<id>" for every non-empty id, and for an id
\* with a colon that expression is no valid selector, so it counts 0 matches.
C21_EveryIdShortCircuits ==
    (Reported /\ elementId(document, info.element) # <<>>) =>
        /\ positionsOf(info.generated, "css") # {}
        /\ valueOf(info.generated, "css") = <<"#">> \o elementId(document, info.element)
        /\ positionsOf(info.generated, "id") # {}
              <=> ~includes(elementId(document, info.element), ":")
        /\ includes(elementId(document, info.element), ":")
              => \A k \in positionsOf(info.generated, "css") :
                    getMatchCount(document, info.generated[k]) = 0

RECURSIVE upFrom(_, _, _)
\* the element j levels above n (0 above the root element)
upFrom(doc, n, j) ==
    IF j = 0 \/ n = 0 THEN n ELSE upFrom(doc, doc[n].parent, j - 1)

\* the segments of a structural selector, root first
segmentsOf(value) ==
    [k \in 1..Len(splitOn(value, {">"})) |-> trim(splitOn(value, {">"})[k])]

\* the segment names the element's tag and, read as a selector, selects it
describes(doc, segment, n) ==
    /\ n # 0
    /\ OccursAt(segment, 1, toLowerCase(doc[n].tagName))
    /\ n \in querySelectorAll(doc, segment).nodes

\* root-to-target order: the last segment describes the target, the one
\* before it the parent, and so on, none of them body; the walk ended at
\* body, above the root element or with the fifth segment
walkedUp(doc, segments, n) ==
    /\ Len(segments) \in 1..5
    /\ \A j \in 0..(Len(segments) - 1) :
          /\ upFrom(doc, n, j) # body
          /\ describes(doc, segments[Len(segments) - j], upFrom(doc, n, j))
    /\ Len(segments) = 5 \/ upFrom(doc, n, Len(segments)) \in {0, body}

withoutId == Reported /\ elementId(document, info.element) = <<>>

\* C22: for an element without id generateCssSelector returns at most 5
\* segments joined by ' > ' in root-to-target order, the last describing the
\* target and each other one the parent of the next, none describing body;
\* the result is empty, and no css candidate is generated, exactly when the
\* target is body.
C22_AtMostFiveSegmentsUpToBody ==
    withoutId =>
        /\ positionsOf(info.generated, "css") = {} <=> info.element = body
        /\ generateCssSelector(document, info.element) = <<>> <=> info.element = body
        /\ \A k \in positionsOf(info.generated, "css") :
              /\ info.generated[k].value = generateCssSelector(document, info.element)
              /\ walkedUp(document, segmentsOf(info.generated[k].value), info.element)

\* an element six levels below body was given a selector of five segments
C22_Witness ==
    /\ withoutId
    /\ upFrom(document, info.element, 6) = body
    /\ positionsOf(info.generated, "css") # {}
    /\ Len(segmentsOf(valueOf(info.generated, "css"))) = 5

\* the elements from the root element down to n
pathTo(doc, n) == ascending({n} \cup ancestors(doc, n))

\* the element siblings before n that have its tag name
sameTagBefore(doc, n) ==
    {m \in 1..(n - 1) : doc[m].parent = doc[n].parent /\ doc[m].tagName = doc[n].tagName}

\* the segment the specification gives an element: tag, or tag[k + 1]
expectedSegment(doc, n) ==
    IF sameTagBefore(doc, n) = {}
    THEN toLowerCase(doc[n].tagName)
    ELSE toLowerCase(doc[n].tagName)
         \o <<"[">> \o numberToString(Cardinality(sameTagBefore(doc, n)) + 1) \o <<"]">>

\* C23: for an element without id generateXPath returns '/' and one segment
\* per element from the root element down to the target, joined by '/': tag[k+1]
\* for an element with k > 0 preceding siblings of its tag name, the bare tag
\* for one with none; for an element with an id it returns //*[@id="<id>"].
C23_PathOfIndexedTags ==
    Reported =>
        /\ positionsOf(info.generated, "xpath") # {}
        /\ elementId(document, info.element) # <<>> =>
              valueOf(info.generated, "xpath")
                  = <<"/", "/", "*", "[", "@", "i", "d", "=", "\"">> \o elementId(document, info.element) \o <<"\"", "]">>
        /\ elementId(document, info.element) = <<>> =>
              /\ valueOf(info.generated, "xpath")[1] = "/"
              /\ splitOn(Tail(valueOf(info.generated, "xpath")), {"/"})
                    = [k \in 1..Len(pathTo(document, info.element)) |->
                          expectedSegment(document, pathTo(document, info.element)[k])]

\* the third <input> of its parent was given a path that ends in input[3]
C23_Witness ==
    /\ withoutId
    /\ Cardinality(sameTagBefore(document, info.element)) = 2
    /\ Len(pathTo(document, info.element)) >= 4
    /\ OccursAt(valueOf(info.generated, "xpath"),
                Len(valueOf(info.generated, "xpath")) - 7, <<"i", "n", "p", "u", "t", "[", "3", "]">>)

\* the order in which generateLocators considers the kinds
FixedOrder ==
    <<"test-id", "role", "aria-label", "role-attr", "label", "text", "placeholder",
      "alt", "title", "name", "id", "css", "xpath">>

\* the place of a kind in the fixed order (0 for an unknown kind)
placeOf(kind) ==
    IF \E p \in 1..Len(FixedOrder) : FixedOrder[p] = kind
    THEN CHOOSE p \in 1..Len(FixedOrder) : FixedOrder[p] = kind
    ELSE 0

\* C25: in every list generateLocators returns each kind occurs at most once,
\* the kinds follow the fixed order test-id, role, aria-label, role-attr,
\* label, text, placeholder, alt, title, name, id, css, xpath, and role and
\* role-attr never both occur, so the list has at most 12 entries.
C25_KindsOnceInFixedOrder ==
    Reported =>
        /\ \A k \in 1..Len(info.generated) : placeOf(info.generated[k].type) # 0
        /\ \A j, k \in 1..Len(info.generated) :
              j < k => placeOf(info.generated[j].type) < placeOf(info.generated[k].type)
        /\ positionsOf(info.generated, "role") = {} \/ positionsOf(info.generated, "role-attr") = {}
        /\ Len(info.generated) <= 12

\* a list with a role candidate and one with a role-attr candidate: the
\* element has a role attribute, with and without an accessible name
C25_Witness ==
    /\ Reported
    /\ Truthy(getAttribute(document, info.element, "role"))
    /\ Len(info.generated) >= 4
    /\ positionsOf(info.generated, "role") # {} \/ positionsOf(info.generated, "role-attr") # {}

\* the nodes the expression selects in the document, none when it raises
selectedBy(doc, x) == IF evaluateXPath(doc, x).ok THEN evaluateXPath(doc, x).nodes ELSE {}

\* C26: for every element without id the expression generateXPath produces,
\* evaluated against the same document, selects exactly one node, the target,
\* so the xpath candidate's match count is 1, also when the element is the
\* first of several siblings with its tag name.
C26_PathSelectsTargetOnly ==
    withoutId =>
        \A k \in positionsOf(info.generated, "xpath") :
            /\ selectedBy(document, info.generated[k].value) = {info.element}
            /\ getMatchCount(document, info.generated[k]) = 1

\* the later same-tag siblings of n
sameTagAfter(doc, n) ==
    {m \in Nodes(doc) : m > n /\ doc[m].parent = doc[n].parent /\ doc[m].tagName = doc[n].tagName}

RECURSIVE sharesPath(_, _, _)
\* m lies where the path of n leads: at every level the same tag name, and
\* the same place among the siblings of that tag wherever the path of n
\* carries an index
sharesPath(doc, m, n) ==
    /\ doc[m].tagName = doc[n].tagName
    /\ sameTagBefore(doc, n) # {} =>
          Cardinality(sameTagBefore(doc, m)) = Cardinality(sameTagBefore(doc, n))
    /\ IF doc[n].parent = 0 THEN doc[m].parent = 0
       ELSE doc[m].parent # 0 /\ sharesPath(doc, doc[m].parent, doc[n].parent)

\* C26, what the code does: a segment without index matches every sibling of
\* that tag name, so the path of a first sibling selects the later ones too.
C26_PathSelectsSameTagSiblings ==
    withoutId =>
        \A k \in positionsOf(info.generated, "xpath") :
            /\ selectedBy(document, info.generated[k].value)
                  = {m \in Nodes(document) : sharesPath(document, m, info.element)}
            /\ getMatchCount(document, info.generated[k])
                  = Cardinality({m \in Nodes(document) : sharesPath(document, m, info.element)})

ListenerTypes == {"mouseover", "mouseout", "keydown", "click"}

\* C24: after deactivate none of the mouseover, mouseout, keydown and click
\* listeners activate registered remains on the document; after any sequence
\* of toggles the document holds one set of inspector listeners when the
\* inspector is enabled and none when it is disabled, and a mouseover while it
\* is enabled invokes onMouseOver exactly once.
C24_ListenersFollowEnabled ==
    /\ \A type \in ListenerTypes :
          Cardinality(listenersOf(inspector, type)) = (IF inspector.enabled THEN 1 ELSE 0)
    /\ (inspector.event = "mouseover" /\ inspector.enabled /\ inspector.lastHighlighted # 0)
          => inspector.handled = 1

\* C24, what the code does: removeEventListener is passed a function bind has
\* just made, which was never registered, so nothing is removed and every
\* activation adds one more set of listeners.
C24_ListenersAccumulate ==
    \A type \in ListenerTypes :
        Cardinality(listenersOf(inspector, type)) = (inspector.toggles + 1) \div 2

\* C27: in every reachable state in which the inspector is disabled no detail
\* panel is open: this.panel is null and no locator-panel-container is
\* attached to the document, under every interleaving of Alt+X, the
\* completion of the panel.html fetch, toggle and closePanel.
C27_NoPanelWhileDisabled ==
    ~inspector.enabled => (inspector.panel = 0 /\ inspector.attached = {})

\* C27, what the code does: deactivate closes the panel that is open when it
\* runs; a container whose fetch is still in flight is attached later.
C27_DeactivateClosesOpenPanel ==
    [][(inspector.enabled /\ ~inspector'.enabled)
          => (/\ inspector'.panel = 0
              /\ inspector.panel \notin inspector'.attached
              /\ inspector'.pending = inspector.pending)]_vars

\* C28: after any sequence of openPanel and closePanel calls, the fetch
\* completions interleaved in any order, the document holds at most one
\* locator-panel-container, and every attached container is the one this.panel
\* refers to, so that closePanel can remove it.
C28_OnePanelOwned ==
    /\ Cardinality(inspector.attached) <= 1
    /\ inspector.attached \subseteq {inspector.panel}

\* C28, what the code does: a completing fetch attaches its container beside
\* those already attached and makes it this.panel, whichever was this.panel.
C28_PanelIsLastLoaded ==
    [][\A container \in 1..MaxPanels :
          (container \in inspector.pending /\ container \notin inspector'.pending
              /\ container \in inspector'.attached)
          => (inspector'.panel = container
              /\ inspector'.attached = inspector.attached \cup {container})]_vars
=============================================================================
